---- MODULE Spec2Model ----
(***************************************************************************)
(* Model of SPNV's panorama projector (src/src/projector.cpp).             *)
(*                                                                         *)
(* Numbers.  The projector computes in IEEE floats; the model computes in  *)
(* exact integer arithmetic on fixed-point quantities:                     *)
(*   - angles are integers in units of 1/AngleScale radian;                *)
(*   - tangents, oversampling values are integers scaled by FixedScale;    *)
(*   - the focal length f is an integer scaled by FocalScale;              *)
(*   - the zoom is an exact rational <<numerator, denominator>>.           *)
(* tan and atan are computed by piecewise linear interpolation of a table  *)
(* of tan at multiples of 0.1 rad; both are monotone and atan inverts tan  *)
(* on the table.  A float NaN is the value NaN, and comparisons with it    *)
(* are false as in IEEE arithmetic.                                        *)
(***************************************************************************)
EXTENDS Integers, Sequences, FiniteSets, TLC

\* ------------------------------------------------------------------ bounds

\* Display widths and heights range over 0..MaxDisplay.
MaxDisplay == 2

\* Number of public calls (updateDisplaySize, updateView, centerHorizon) made
\* on one Projector before it is destroyed.
MaxCalls == 2

\* -------------------------------------------------------------- arithmetic

AngleScale == 10000
FixedScale == 1000
FocalScale == 100

\* Constants::pi, in angle units (3.14159... * AngleScale, rounded).
Pi == 31416
TwoPi == 2 * Pi
HalfPi == Pi \div 2

\* static_cast<int>(2*Constants::pi * 10000): the right-hand side of the
\* rounded comparison that decides fovIs360Degrees.
TwoPiTimes10000 == 62831

\* The float NaN (0/0, or anything computed from it).
NaN == -7777777

Abs(x) == IF x < 0 THEN -x ELSE x
Max(a, b) == IF a >= b THEN a ELSE b
Min(a, b) == IF a <= b THEN a ELSE b

\* IEEE comparisons: false as soon as one operand is NaN.
FLt(a, b) == a # NaN /\ b # NaN /\ a < b
FGt(a, b) == a # NaN /\ b # NaN /\ a > b
FLe(a, b) == a # NaN /\ b # NaN /\ a <= b

\* std::min(a, b) is (b < a) ? b : a, also for NaN operands.
StdMin(a, b) == IF FLt(b, a) THEN b ELSE a

\* a - b on floats that may be NaN.
FSub(a, b) == IF a = NaN \/ b = NaN THEN NaN ELSE a - b

RECURSIVE GCD(_, _)
GCD(a, b) == IF b = 0 THEN a ELSE GCD(b, a % b)

\* Rationals <<n, d>> with d > 0, kept in lowest terms.
Rat(n, d) ==
    LET g == GCD(Abs(n), d) IN
    IF n = 0 THEN <<0, 1>> ELSE <<n \div g, d \div g>>
RatLt(a, b) == a[1] * b[2] < b[1] * a[2]
RatEq(a, b) == a[1] * b[2] = b[1] * a[2]
RatMax(a, b) == IF RatLt(a, b) THEN b ELSE a
RatDiv(a, b) == Rat(a[1] * b[2], a[2] * b[1])

\* tan(k / 10) * FixedScale for k = 0..15.
TanTable ==
    <<0, 100, 203, 309, 423, 546, 684, 842, 1030, 1260,
      1557, 1965, 2572, 3602, 5798, 14101>>
TanStep == 1000
TanLast == 15

\* std::tan of an angle in [0, 1.5 rad], scaled by FixedScale.
Tan(a) ==
    LET k == a \div TanStep
        r == a % TanStep
    IN  IF k >= TanLast THEN TanTable[TanLast + 1]
        ELSE TanTable[k + 1] + (r * (TanTable[k + 2] - TanTable[k + 1])) \div TanStep

\* std::atan of a non-negative tangent (scaled by FixedScale), in angle units.
AtanPos(t) ==
    IF t > TanTable[TanLast + 1]
    THEN Max(TanLast * TanStep, HalfPi - (AngleScale * FixedScale) \div t)
    ELSE LET k == CHOOSE j \in 0..TanLast :
                    /\ TanTable[j + 1] <= t
                    /\ (j = TanLast \/ t < TanTable[j + 2])
         IN  IF k = TanLast THEN TanLast * TanStep
             ELSE k * TanStep
                  + (TanStep * (t - TanTable[k + 1])) \div (TanTable[k + 2] - TanTable[k + 1])

\* std::atan of a tangent scaled by FixedScale (odd in t).
Atan(t) == IF t >= 0 THEN AtanPos(t) ELSE -AtanPos(-t)

\* n / d rounded towards zero, as a float division followed by truncation.
Quot(n, d) == IF n >= 0 THEN n \div d ELSE -((-n) \div d)

\* std::atan2(y, x) for x >= 0 (y, x in the same unit): atan(y / x), and
\* +-pi/2 or 0 on the axis x = 0.
Atan2(y, x) ==
    IF x > 0 THEN Atan(Quot(y * FixedScale, x))
    ELSE IF y > 0 THEN HalfPi ELSE IF y < 0 THEN -HalfPi ELSE 0

RECURSIVE SqrtSearch(_, _, _)
SqrtSearch(v, lo, hi) ==
    IF lo >= hi THEN lo
    ELSE LET mid == (lo + hi + 1) \div 2 IN
         IF mid * mid <= v THEN SqrtSearch(v, mid, hi) ELSE SqrtSearch(v, lo, mid - 1)

\* floor(sqrt(v)) for 0 <= v < 2^30.
Sqrt(v) == SqrtSearch(v, 0, 32767)

\* ------------------------------------------------------------ the scenes

\* SceneMetaData handed to the constructor.  Sizes in pixels, angles in angle
\* units.  The horizon lies inside the crop rectangle of every scene.
\*   - equirectangular, full turn, crop symmetric about the horizon
\*   - equirectangular, full turn, more sky than ground
\*   - central cylindrical, 129 degrees wide, more sky than ground
SceneMetaDatas ==
    { [projectionType |-> "Equirectangular",
       uncroppedSize |-> <<8, 4>>, uncroppedFOV |-> <<62832, 20000>>,
       cropPosTL |-> <<0, 0>>, cropPosBR |-> <<8, 4>>],
      [projectionType |-> "Equirectangular",
       uncroppedSize |-> <<8, 8>>, uncroppedFOV |-> <<62832, 24000>>,
       cropPosTL |-> <<0, 1>>, cropPosBR |-> <<8, 6>>],
      [projectionType |-> "CentralCylindrical",
       uncroppedSize |-> <<8, 4>>, uncroppedFOV |-> <<30000, 20000>>,
       cropPosTL |-> <<1, 0>>, cropPosBR |-> <<7, 3>>] }

\* ---------------------------------------------------------------- the state

VARIABLES
    pic,                        \* the picture file as the image loader sees it
    pSceneMetaData,             \* the meta data handed to PanoramaWindow::run
    panoramaWindow,             \* run()'s position, its results, the window
    scene,                      \* the const members set by the constructor
    f, zoom,                    \* focal length (FocalScale), zoom (rational)
    viewOffsetPhi, viewOffsetTheta,
    displaySize, displayFOV,    \* <<x, y>>
    staticDisplayTrafos,        \* what the view-angle cache was last built for
    panoSphereSize,             \* <<x, y>>
    panoSphereData,             \* the panorama sphere buffer (bytes)
    displayData,                \* the display buffer (bytes)
    panoSphereRemapHystMaxF,    \* learned focal length limit, 0 = unset
    updateDisplayThread,        \* "none", "running" or "joined"
    stopUpdateDisplayThread,
    updateDisplayMutex,         \* "free", or the thread that holds it
    updateDisplayCondVar,       \* the threads blocked in wait()
    startUpdateDisplay, updateDisplayFinished,
    callerPc, workerPc,         \* position of the calling and the worker thread
    requestsPosted, requestsReturned, passesStarted, passesCompleted,
    lastCall,                   \* the public call in progress or last completed
    outOfBounds,                \* an access outside a buffer or cache happened
    teamPc                      \* position of each thread of the OpenMP team

geometryVars == <<scene, pic, pSceneMetaData, panoramaWindow>>
viewVars ==
    <<f, zoom, viewOffsetPhi, viewOffsetTheta, displaySize, displayFOV,
      staticDisplayTrafos, panoSphereSize, panoSphereData, panoSphereRemapHystMaxF>>
syncVars ==
    <<updateDisplayThread, stopUpdateDisplayThread, updateDisplayMutex,
      updateDisplayCondVar, startUpdateDisplay, updateDisplayFinished>>
countVars == <<requestsPosted, requestsReturned, passesStarted, passesCompleted>>
vars ==
    <<pic, pSceneMetaData, panoramaWindow, scene, f, zoom, viewOffsetPhi, viewOffsetTheta, displaySize, displayFOV,
      staticDisplayTrafos, panoSphereSize, panoSphereData, displayData,
      panoSphereRemapHystMaxF, updateDisplayThread, stopUpdateDisplayThread, updateDisplayMutex,
      updateDisplayCondVar, startUpdateDisplay, updateDisplayFinished,
      callerPc, workerPc, requestsPosted, requestsReturned, passesStarted,
      passesCompleted, lastCall, outOfBounds, teamPc>>

\* ------------------------------------------- geometry (const members, ctor)

\* (uncroppedSize.y / 2 - y) / (uncroppedSize.y / 2) is taken as the fraction
\* (uncroppedSize.y - 2 y) / uncroppedSize.y.
calcTopLeftFOV(m) ==
    LET phi == (m.uncroppedFOV[1] * m.cropPosTL[1]) \div m.uncroppedSize[1]
        num == m.uncroppedSize[2] - 2 * m.cropPosTL[2]
    IN  IF m.projectionType = "CentralCylindrical"
        THEN <<phi, Atan(Quot(Tan(m.uncroppedFOV[2] \div 2) * num, m.uncroppedSize[2]))>>
        ELSE IF m.projectionType = "Equirectangular"
        THEN <<phi, Quot((m.uncroppedFOV[2] \div 2) * num, m.uncroppedSize[2])>>
        ELSE <<0, 0>>

calcBottomRightFOV(m) ==
    LET phi == (m.uncroppedFOV[1] * m.cropPosBR[1]) \div m.uncroppedSize[1]
        num == 2 * m.cropPosBR[2] - m.uncroppedSize[2]
    IN  IF m.projectionType = "CentralCylindrical"
        THEN <<phi, -Atan(Quot(Tan(m.uncroppedFOV[2] \div 2) * num, m.uncroppedSize[2]))>>
        ELSE IF m.projectionType = "Equirectangular"
        THEN <<phi, -Quot((m.uncroppedFOV[2] \div 2) * num, m.uncroppedSize[2])>>
        ELSE <<0, 0>>

\* (int)(pLeft * 10000) + 1 < (int)(pRight * 10000), pLeft an angle in
\* angle units and pRight10000 the right-hand side already scaled.
roundedCompareSmaller(pLeft, pRight10000) ==
    ((pLeft * 10000) \div AngleScale) + 1 < pRight10000

\* The const members of a Projector built from the meta data m (initialiser
\* list of the constructor).
ConstMembers(m) ==
    LET tl == calcTopLeftFOV(m)
        br == calcBottomRightFOV(m)
        centHor == <<br[1] - tl[1], 2 * Max(tl[2], -br[2])>>
        centHorNoMargin == <<br[1] - tl[1], 2 * Min(tl[2], -br[2])>>
        nonCentHorNoMargin == <<br[1] - tl[1], tl[2] - br[2]>>
    IN  [projectionType |-> m.projectionType,
         picUncroppedSize |-> m.uncroppedSize,
         picUncroppedFOV |-> m.uncroppedFOV,
         picCropPosTL |-> m.cropPosTL,
         picCropPosBR |-> m.cropPosBR,
         picSize |-> <<m.cropPosBR[1] - m.cropPosTL[1], m.cropPosBR[2] - m.cropPosTL[2]>>,
         fovTL |-> tl,
         fovBR |-> br,
         fovCentHor |-> centHor,
         fovCentHorNoMargin |-> centHorNoMargin,
         fovNonCentHorNoMargin |-> nonCentHorNoMargin,
         fovIs360Degrees |-> (roundedCompareSmaller(centHor[1], TwoPiTimes10000) = FALSE),
         tanFOV2 |-> Tan(centHor[2] \div 2),
         minZoomCentHor |-> Rat(Tan(centHor[2] \div 2), Tan(centHorNoMargin[2] \div 2)),
         minZoomNonCentHor |-> Rat(Tan(centHor[2] \div 2), Tan(nonCentHorNoMargin[2] \div 2))]

projectionType == scene.projectionType
picUncroppedSize == scene.picUncroppedSize
picUncroppedFOV == scene.picUncroppedFOV
picCropPosTL == scene.picCropPosTL
picCropPosBR == scene.picCropPosBR
picSize == scene.picSize
fovTL == scene.fovTL
fovBR == scene.fovBR
fovCentHor == scene.fovCentHor
fovCentHorNoMargin == scene.fovCentHorNoMargin
fovNonCentHorNoMargin == scene.fovNonCentHorNoMargin
fovIs360Degrees == scene.fovIs360Degrees
minZoomCentHor == scene.minZoomCentHor
minZoomNonCentHor == scene.minZoomNonCentHor

\* std::tan(fovCentHor.y / 2.), the constant of updateDisplayFOV (line 614).
tanFOV2 == scene.tanFOV2

panoSphereRemapHystMinOvers == 1000
panoSphereRemapHystTargOvers == 1500
panoSphereRemapHystMaxOvers == 2000

\* ------------------------------------------------------------ pixel buffers

\* Pixel buffers are flat sequences of bytes, four per pixel (R, G, B, A) in
\* row-major order; byte i of the code is element i + 1.  Pixel coordinates
\* (floats) are kept to 1 / PixelScale of a pixel.
PixelScale == 100

\* The loaded picture is of one colour: every pixel has these R, G, B, A bytes.
FlatColour == <<10, 20, 30, 255>>

\* A picture file: whether the image loader can load it, its decoded size
\* and its decoded pixels.
PicFile(loadable, size) ==
    [loadable |-> loadable, size |-> size,
     pixels |-> [i \in 1..(4 * size[1] * size[2]) |-> FlatColour[((i - 1) % 4) + 1]]]

\* sf::Image::getPixelsPtr of the loaded picture.
PicPixels == pic.pixels

\* What the conversion of a NaN or of a float outside 0..255 to std::uint8_t,
\* or a read outside a buffer, can deliver.
GarbageBytes == {0, 255}

\* The contents of panoSphereData and displayData are followed in the
\* behaviours that start with empty buffers (PixelInit).  In the others the
\* two buffers are this value, which every operation leaves as it is: no
\* branch of the program depends on what a buffer holds.
NotFollowed == <<"not followed">>

\* std::vector::resize(n, fill): the first elements are kept, new ones filled.
Resize(data, n, fill) ==
    IF data = NotFollowed THEN NotFollowed
    ELSE [i \in 1..n |-> IF i <= Len(data) THEN data[i] ELSE fill]

\* static_cast<int> of a pixel coordinate.
ToInt(v) == Quot(v, PixelScale)

\* A coordinate computed to 1 / FixedScale of a pixel, as a pixel coordinate.
ToPixelScale(v) == Quot(v * PixelScale, FixedScale)

\* std::tan of an angle in [-1.5 rad, 1.5 rad] (odd in the angle).
TanOdd(a) == IF a < 0 THEN -Tan(-a) ELSE Tan(a)

\* n / d truncated towards zero, for a divisor of either sign.
QuotSigned(n, d) == IF d < 0 THEN Quot(-n, -d) ELSE Quot(n, d)

\* One iteration of the loops of interpolatePixel (lines 976-1015) for the
\* source pixel of column x (before the wrap offset) and row y, which the
\* rectangle covers with the weight `weight`.  `sums` holds r, g, b,
\* totalWeight, whether a pixel was fetched through the wrap offset and
\* whether one was read outside the source buffer.
AddSourcePixel(sums, size, pixels, x, y, weight, garbage) ==
    LET wrap == IF x < 0 THEN size[1] ELSE IF x >= size[1] THEN -size[1] ELSE 0
        i == 4 * (size[1] * y + x + wrap)
        inBuffer == i >= 0 /\ i + 2 < Len(pixels)
    IN  IF y < 0 \/ y >= size[2] THEN sums
        ELSE IF ~fovIs360Degrees /\ wrap # 0 THEN sums
        ELSE IF inBuffer
        THEN <<sums[1] + weight * pixels[i + 1], sums[2] + weight * pixels[i + 2],
               sums[3] + weight * pixels[i + 3], sums[4] + weight,
               sums[5] \/ wrap # 0, sums[6]>>
        ELSE <<sums[1] + weight * garbage, sums[2] + weight * garbage,
               sums[3] + weight * garbage, sums[4] + weight,
               sums[5] \/ wrap # 0, TRUE>>

\* The conversion of sum / totalWeight to std::uint8_t: undefined for 0 / 0
\* and for a quotient outside 0..255.
ToUint8(sum, totalWeight, garbage) ==
    IF totalWeight = 0 \/ QuotSigned(sum, totalWeight) < 0
          \/ QuotSigned(sum, totalWeight) > 255
    THEN garbage
    ELSE QuotSigned(sum, totalWeight)

\* The loops of interpolatePixel from iteration number k on (row k \div nx,
\* column k % nx of the covered pixels).
RECURSIVE SumSourcePixels(_, _, _, _, _, _, _, _, _, _, _)
SumSourcePixels(k, sums, size, pixels, pTLx, pTLy, pBRx, pBRy, nx, ny, garbage) ==
    IF k >= nx * ny THEN sums
    ELSE SumSourcePixels(
             k + 1,
             AddSourcePixel(
                 sums, size, pixels, ToInt(pTLx) + (k % nx), ToInt(pTLy) + (k \div nx),
                 (IF k % nx = 0 THEN PixelScale + ToInt(pTLx) * PixelScale - pTLx
                  ELSE IF k % nx = nx - 1 THEN pBRx - ToInt(pBRx) * PixelScale
                  ELSE PixelScale)
                 * (IF k \div nx = 0 THEN PixelScale + ToInt(pTLy) * PixelScale - pTLy
                    ELSE IF k \div nx = ny - 1 THEN pBRy - ToInt(pBRy) * PixelScale
                    ELSE PixelScale),
                 garbage),
             size, pixels, pTLx, pTLy, pBRx, pBRy, nx, ny, garbage)

\* Lines 1019-1023: the three bytes written to the target pixel, with what
\* the loops found.  `undefined` tells that a byte is the result of undefined
\* behaviour.
TargetPixel(sums, garbage) ==
    [rgb |-> <<ToUint8(sums[1], sums[4], garbage), ToUint8(sums[2], sums[4], garbage),
               ToUint8(sums[3], sums[4], garbage)>>,
     wrapped |-> sums[5],
     oob |-> sums[6],
     nan |-> sums[4] = 0,
     undefined |-> \/ sums[6]
                   \/ sums[4] = 0
                   \/ \E c \in 1..3 : \/ QuotSigned(sums[c], sums[4]) < 0
                                       \/ QuotSigned(sums[c], sums[4]) > 255]

\* interpolatePixel (lines 949-1024) for the rectangle <<pTLx, pTLy>> to
\* <<pBRx, pBRy>> (in PixelScale) of the source image pSourcePixels of size
\* pSourceImageSize.  `garbage` is the byte that undefined conversions and
\* reads deliver.
interpolatePixel(pSourceImageSize, pSourcePixels, pTLx, pTLy, pBRx, pBRy, garbage) ==
    TargetPixel(SumSourcePixels(0, <<0, 0, 0, 0, FALSE, FALSE>>,
                                pSourceImageSize, pSourcePixels, pTLx, pTLy, pBRx, pBRy,
                                Max(ToInt(pBRx) - ToInt(pTLx) + 1, 0),
                                Max(ToInt(pBRy) - ToInt(pTLy) + 1, 0), garbage),
                garbage)

\* ------------------------------------------------- view-angle transformations

\* atan2(pX - displaySize.x / 2, f), for the display size and focal length given.
staticDisplayTrafoX(pX, size, focal) ==
    Atan2((2 * pX - size[1]) * FocalScale, 2 * focal)

\* atan((pY - displaySize.y / 2) / f * sin(atan2(f, pX - displaySize.x / 2))).
\* For f > 0 the sine is f / sqrt(f^2 + (pX - displaySize.x / 2)^2).  For f = 0
\* (display height 0) row 0 gives 0 / 0 * sin(..), a NaN.
staticDisplayTrafoY(pY, pX, size, focal) ==
    IF focal = 0 THEN NaN
    ELSE LET dx == ((2 * pX - size[1]) * FocalScale) \div 2
             hyp == Sqrt(focal * focal + dx * dx)
         IN  Atan(Quot((2 * pY - size[2]) * FocalScale * FixedScale, 2 * hyp))

\* Lengths of staticDisplayTrafosX and staticDisplayTrafosY.
StaticTrafosXLen(cache) == IF cache.built THEN cache.size[1] + 1 ELSE 0
StaticTrafosYLen(cache) ==
    IF cache.built THEN (cache.size[1] + 1) * (cache.size[2] + 1) ELSE 0

\* (staticDisplayTrafosX[pX] + viewOffsetPhi) * panoSphereSize.x / fovCentHor.x,
\* in sphere pixels scaled by FixedScale.
displayTrafoX(pX, cache, phi, sphere) ==
    LET a == staticDisplayTrafoX(pX, cache.size, cache.f) IN
    Quot((a + phi) * sphere[1] * FixedScale, fovCentHor[1])

\* (staticDisplayTrafosY[(displaySize.x+1)*pY + pX] + viewOffsetTheta)
\*   * panoSphereSize.y / fovCentHor.y + panoSphereSize.y / 2.
displayTrafoY(pY, pX, cache, theta, sphere) ==
    LET a == staticDisplayTrafoY(pY, pX, cache.size, cache.f) IN
    IF a = NaN THEN NaN
    ELSE Quot((a + theta) * sphere[2] * FixedScale, fovCentHor[2])
         + (sphere[2] * FixedScale) \div 2

\* What a read outside a cache can deliver to the oversampling estimate: a
\* difference below the lower threshold, above the upper one, or a NaN.
GarbageOversampling == {NaN, 500, 3000}

\* calcLowestDisplayTrafoOversampling reads the caches at x = 0, x = 1 and at
\* (y, x) = (0, 0), (1, 0).  The indices 1 and displaySize.x + 1 lie outside
\* the caches when the display is 0 wide resp. 0 high.
OversamplingReadsOutOfBounds(cache) ==
    \/ 1 >= StaticTrafosXLen(cache)
    \/ (cache.size[1] + 1) * 1 + 0 >= StaticTrafosYLen(cache)

\* The values calcLowestDisplayTrafoOversampling can return (scaled by
\* FixedScale): one value when all four reads are inside the caches.
calcLowestDisplayTrafoOversampling(cache, phi, theta, sphere) ==
    LET overXs == IF 1 >= StaticTrafosXLen(cache) THEN GarbageOversampling
                  ELSE {displayTrafoX(1, cache, phi, sphere)
                        - displayTrafoX(0, cache, phi, sphere)}
        overYs == IF (cache.size[1] + 1) * 1 + 0 >= StaticTrafosYLen(cache)
                  THEN GarbageOversampling
                  ELSE {FSub(displayTrafoY(1, 0, cache, theta, sphere),
                             displayTrafoY(0, 0, cache, theta, sphere))}
    IN  {StdMin(ox, oy) : ox \in overXs, oy \in overYs}

\* ------------------------------------------------------ resolution manager

\* picHorizonY of mapPicToPanoSphere (line 830), in PixelScale.
picHorizonY == (picUncroppedSize[2] * PixelScale) \div 2 - picCropPosTL[2] * PixelScale

\* equirectToSphereTrafoX (line 836): pX / scaleFactor, the scale factor being
\* the fraction scale[1] / scale[2].
sphereTrafoX(pX, scale) == Quot(pX * scale[2] * PixelScale, scale[1])

\* equirectToSphereTrafoY (line 842) and cylindToSphereTrafoY (line 848) for a
\* sphere of height sphereY.
sphereTrafoY(pY, sphereY, scale) ==
    IF projectionType = "CentralCylindrical"
    THEN Quot(TanOdd(Quot((2 * pY - sphereY) * fovCentHor[2], 2 * sphereY))
                  * picUncroppedSize[2] * PixelScale,
              2 * Tan(picUncroppedFOV[2] \div 2))
         + picHorizonY
    ELSE Quot((2 * pY - sphereY) * scale[2] * PixelScale, 2 * scale[1]) + picHorizonY

\* A store of a pixel that writes the alpha byte as well.
StorePixelWithAlpha(buffer, p, pixel) ==
    [data |-> [buffer.data EXCEPT ![4 * p + 1] = pixel.rgb[1],
                                  ![4 * p + 2] = pixel.rgb[2],
                                  ![4 * p + 3] = pixel.rgb[3],
                                  ![4 * p + 4] = pixel.rgb[3]],
     oob |-> buffer.oob \/ pixel.oob,
     undefined |-> buffer.undefined \/ pixel.undefined,
     zeroWeight |-> buffer.zeroWeight \/ pixel.nan]

\* The buffer after the three colour bytes of pixel number p were written
\* (lines 779-782 and 914-917: R, G and B are passed, never the alpha byte),
\* with the flags of the interpolation added to it.
StorePixel(buffer, p, pixel) ==
    [data |-> [buffer.data EXCEPT ![4 * p + 1] = pixel.rgb[1],
                                  ![4 * p + 2] = pixel.rgb[2],
                                  ![4 * p + 3] = pixel.rgb[3]],
     oob |-> buffer.oob \/ pixel.oob,
     undefined |-> buffer.undefined \/ pixel.undefined,
     zeroWeight |-> buffer.zeroWeight \/ pixel.nan]

\* Lines 902-919 for one sphere pixel whose pre-image in the picture is the
\* rectangle <<tLx, tLy>> to <<bRx, bRy>>: a pixel whose pre-image lies above
\* or below the picture is left as it is, any other is interpolated.
MapSpherePixel(buffer, p, tLx, tLy, bRx, bRy, garbage) ==
    IF bRy <= 0 \/ tLy >= picSize[2] * PixelScale THEN buffer
    ELSE StorePixel(buffer, p,
                    interpolatePixel(picSize, PicPixels, tLx, tLy, bRx, bRy, garbage))

\* The loop of lines 895-921 from sphere pixel number p on, for a sphere of
\* size `sphere` mapped with the scale factor `scale`.  `buffer` holds the
\* sphere buffer (already resized) and whether a read left the picture.
RECURSIVE MapSpherePixels(_, _, _, _, _)
MapSpherePixels(p, sphere, scale, buffer, garbage) ==
    IF p >= sphere[1] * sphere[2] \/ buffer.data = NotFollowed THEN buffer
    ELSE MapSpherePixels(p + 1, sphere, scale,
                         MapSpherePixel(buffer, p,
                                        sphereTrafoX(p % sphere[1], scale),
                                        sphereTrafoY(p \div sphere[1], sphere[2], scale),
                                        sphereTrafoX((p % sphere[1]) + 1, scale),
                                        sphereTrafoY((p \div sphere[1]) + 1, sphere[2], scale),
                                        garbage),
                         garbage)

\* Lines 880-921 for a sphere of size `sphere` mapped with the scale factor
\* `scale`: the buffer is resized, then every sphere pixel is mapped.
MappedSphere(sphere, scale, data, garbage) ==
    LET buffer == MapSpherePixels(0, sphere, scale,
                                  [data |-> Resize(data, 4 * sphere[1] * sphere[2], 255),
                                   oob |-> FALSE, undefined |-> FALSE,
                                   zeroWeight |-> FALSE],
                                  garbage)
    IN  [panoSphereSize |-> sphere, panoSphereData |-> buffer.data,
         oob |-> buffer.oob, undefined |-> buffer.undefined,
         zeroWeight |-> buffer.zeroWeight]

\* The byte tried first for an undefined conversion or read.
AnyGarbage == CHOOSE garbage \in GarbageBytes : TRUE

\* The spheres that the mapping can produce: one, unless a byte of it is the
\* result of undefined behaviour.
MappedSpheres(sphere, scale, data) ==
    LET any == MappedSphere(sphere, scale, data, AnyGarbage)
    IN  IF any.undefined
        THEN {any} \cup {MappedSphere(sphere, scale, data, garbage) :
                            garbage \in GarbageBytes \ {AnyGarbage}}
        ELSE {any}

\* mapPicToPanoSphere: the panorama sphere sizes and contents it can produce
\* from the buffer `data`.  The sphere starts at the picture's width; if the
\* oversampling estimated for that size exceeds the target, both dimensions
\* are scaled by scaleFactor = target / over.
mapPicToPanoSphere(cache, phi, theta, data) ==
    LET full == <<picSize[1], (picSize[1] * fovCentHor[2]) \div fovCentHor[1] + 1>>
        scaled(over) ==
            <<(panoSphereRemapHystTargOvers * picSize[1]) \div over + 1,
              (panoSphereRemapHystTargOvers * picSize[1] * fovCentHor[2])
                  \div (over * fovCentHor[1]) + 1>>
        \* the sphere size and the scale factor for an estimate
        plan(over) ==
            IF FGt(over, panoSphereRemapHystTargOvers)
            THEN <<scaled(over), <<panoSphereRemapHystTargOvers, over>>>>
            ELSE <<full, <<1, 1>>>>
    IN  UNION { MappedSpheres(p[1], p[2], data) :
                  p \in { plan(over) :
                            over \in calcLowestDisplayTrafoOversampling(cache, phi, theta,
                                                                        full) } }

\* 2 * atan(tanFOV2 * aspect / zoom) and 2 * atan(tanFOV2 / zoom), with
\* aspect = displaySize.x / displaySize.y as a float: NaN for 0 / 0 and
\* infinite for a height of 0 (atan gives pi / 2 then).
DisplayFOVFor(size, z) ==
    LET x == IF size[2] = 0
             THEN (IF size[1] = 0 THEN NaN ELSE 2 * HalfPi)
             ELSE 2 * Atan((tanFOV2 * size[1] * z[2]) \div (size[2] * z[1]))
        y == 2 * Atan((tanFOV2 * z[2]) \div z[1])
    IN  <<x, y>>

\* f = f0 * zoom with f0 = displaySize.y / 2 / tanFOV2, scaled by FocalScale.
FocalLengthFor(size, z) ==
    (size[2] * FocalScale * FixedScale * z[1])
        \div (2 * tanFOV2 * z[2])

\* A re-map decision without the upper limit of the hysteresis.
remapSphereWithoutMaxOvers(over, focal, maxF) ==
    /\ FLt(over, panoSphereRemapHystMinOvers)
    /\ (maxF = 0 \/ focal < maxF)

\* A re-map decision that does not look at the focal length limit.
remapSphereIgnoringMaxF(over, focal, maxF) ==
    \/ FLt(over, panoSphereRemapHystMinOvers)
    \/ FGt(over, panoSphereRemapHystMaxOvers)

\* A re-map decision without the lower limit of the hysteresis.
remapSphereWithoutMinOvers(over, focal, maxF) ==
    FGt(over, panoSphereRemapHystMaxOvers)

\* remapSphere of lines 630-632 for the lowest oversampling `over`, the new
\* focal length and the focal length limit.
remapSphere(over, focal, maxF) ==
    \/ /\ FLt(over, panoSphereRemapHystMinOvers)
       /\ (maxF = 0 \/ focal < maxF)
    \/ FGt(over, panoSphereRemapHystMaxOvers)

\* updateDisplayFOV: the outcomes of one call for display size `size`, zoom z,
\* the stored view offsets, sphere size and focal length limit.  Each outcome
\* gives the new displayFOV, f, cache, sphere size and limit, whether the
\* sphere was re-mapped, whether a cache was read out of bounds and whether
\* the mapping divided by a total weight of 0.
updateDisplayFOV(size, z, phi, theta, sphere, maxF, pForceRemapSphere, data) ==
    LET fov == DisplayFOVFor(size, z)
        focal == FocalLengthFor(size, z)
        cache == [built |-> TRUE, size |-> size, f |-> focal]
        oob == OversamplingReadsOutOfBounds(cache)
        remapFor(over) == remapSphere(over, focal, maxF)
        outcome(newSphere, newData, newMaxF, remapped, mapOob, mapZeroWeight) ==
            [displayFOV |-> fov, f |-> focal, cache |-> cache, oob |-> oob \/ mapOob,
             panoSphereSize |-> newSphere, panoSphereData |-> newData,
             maxF |-> newMaxF, remapped |-> remapped, zeroWeight |-> mapZeroWeight]
        mapped == mapPicToPanoSphere(cache, phi, theta, data)
    IN  UNION {
          IF remapFor(over) \/ pForceRemapSphere
          THEN UNION {
                 { outcome(m.panoSphereSize, m.panoSphereData,
                           IF remapFor(over) /\ FLt(after, panoSphereRemapHystMinOvers)
                           THEN focal ELSE maxF,
                           TRUE, m.oob, m.zeroWeight) :
                     after \in calcLowestDisplayTrafoOversampling(cache, phi, theta,
                                                                   m.panoSphereSize) } :
                 m \in mapped }
          ELSE { outcome(sphere, data, maxF, FALSE, FALSE, FALSE) } :
          over \in calcLowestDisplayTrafoOversampling(cache, phi, theta, sphere) }

\* ------------------------------------------------------------- fitViewOffset

\* A horizontal fit whose non-360 branch lacks the lower limit of lines 568-569.
FitPhiWithoutLowerLimit(phi, fov) ==
    IF ~fovIs360Degrees
    THEN IF FLt(fovCentHor[1], fov[1]) THEN fovCentHor[1] \div 2
         ELSE IF fov[1] # NaN /\ 2 * phi > 2 * fovCentHor[1] - fov[1]
              THEN fovCentHor[1] - fov[1] \div 2
         ELSE phi
    ELSE IF phi < 0 THEN phi + TwoPi
         ELSE IF phi >= TwoPi THEN phi - TwoPi
         ELSE phi

\* The horizontal offset after fitting (lines 564-579).
FitPhi(phi, fov) ==
    IF ~fovIs360Degrees
    THEN IF FLt(fovCentHor[1], fov[1]) THEN fovCentHor[1] \div 2
         ELSE IF fov[1] # NaN /\ 2 * phi < fov[1] THEN fov[1] \div 2
         ELSE IF fov[1] # NaN /\ 2 * phi > 2 * fovCentHor[1] - fov[1]
              THEN fovCentHor[1] - fov[1] \div 2
         ELSE phi
    ELSE IF phi < 0 THEN phi + TwoPi
         ELSE IF phi >= TwoPi THEN phi - TwoPi
         ELSE phi

\* The vertical offset after fitting (lines 583-586).
FitTheta(theta, fov) ==
    IF fov[2] - 2 * theta > 2 * fovTL[2] THEN fov[2] \div 2 - fovTL[2]
    ELSE IF fov[2] + 2 * theta > -2 * fovBR[2] THEN -(fov[2] \div 2 + fovBR[2])
    ELSE theta

fitViewOffset(phi, theta, fov) == <<FitPhi(phi, fov), FitTheta(theta, fov)>>

\* -------------------------------------------------------------- the inputs

DisplaySizes == (0..MaxDisplay) \X (0..MaxDisplay)

\* Requested zoom levels: the sentinels -1 and 0, a level below the minimum
\* zoom of every scene, one between the two minima of the asymmetric scenes,
\* one above both.
ZoomInputs == {<<-1, 1>>, <<0, 1>>, <<1, 2>>, <<3, 2>>, <<3, 1>>}

\* Requested view offsets <<phi, theta>>.  phi: more than a turn below 0, less
\* than a turn below 0, inside the scene, less than a turn above 2 pi.
\* theta: below, on and above the horizon.
OffsetInputs == {<<-70000, 0>>, <<-5000, -9000>>, <<10000, 3000>>, <<70000, 0>>}

\* lastCall before the first public call.
NoCall ==
    [op |-> "none", pZoom |-> <<0, 1>>, pOffsetPhi |-> 0, pOffsetTheta |-> 0,
     remapped |-> FALSE, force |-> FALSE, zeroWeight |-> FALSE]

\* --------------------------------------------------------------- Projector()

\* The cropped picture size the meta data m announces (picSize, line 78).
CroppedSize(m) ==
    <<m.cropPosBR[1] - m.cropPosTL[1], m.cropPosBR[2] - m.cropPosTL[2]>>

\* A size check that looks at the width only.
PicWidthMismatch(m) == pic.size[1] # CroppedSize(m)[1]

\* The size check of the constructor body (line 123): the decoded picture's
\* width or height differs from picSize.  Sizes are positive here, the cast
\* to unsigned int changes nothing.
PicSizeMismatch(m) ==
    \/ pic.size[1] # CroppedSize(m)[1]
    \/ pic.size[2] # CroppedSize(m)[2]

\* The constructor throws std::runtime_error (lines 120-124): the picture
\* cannot be loaded, or its size is not the announced one.
ProjectorThrows(m) == ~pic.loadable \/ PicSizeMismatch(m)

\* `scene` while there is no Projector.
NoProjector == [projectionType |-> "none"]

\* The non-const members as the initialiser list leaves them (lines 72-118).
MembersAfterInitialisers ==
    /\ f = 0
    /\ zoom = <<1, 1>>
    /\ viewOffsetPhi = 0
    /\ viewOffsetTheta = 0
    /\ displaySize = <<0, 0>>
    /\ displayFOV = <<0, 0>>
    /\ staticDisplayTrafos = [built |-> FALSE, size |-> <<0, 0>>, f |-> 0]
    /\ panoSphereSize = <<0, 0>>
    /\ panoSphereRemapHystMaxF = 0
    /\ updateDisplayThread = "none"
    /\ stopUpdateDisplayThread = FALSE
    /\ updateDisplayMutex = "free"
    /\ updateDisplayCondVar = {}
    /\ startUpdateDisplay = FALSE
    /\ updateDisplayFinished = FALSE
    /\ callerPc = "idle"
    /\ workerPc = "none"
    /\ requestsPosted = 0
    /\ requestsReturned = 0
    /\ passesStarted = 0
    /\ passesCompleted = 0
    /\ lastCall = NoCall
    /\ outOfBounds = FALSE
    /\ teamPc = <<>>

\* The two pixel buffers as the initialiser list leaves them (lines 105, 107).
BuffersAfterInitialisers == panoSphereData = <<>> /\ displayData = <<>>

\* PanoramaWindow::run right after make_unique<Projector> has returned.
RunAfterConstruction ==
    [pc |-> "createWindow", projector |-> TRUE, window |-> FALSE,
     pRequestPrev |-> FALSE, pRequestNext |-> FALSE, result |-> "none"]

\* State after a successful construction (lines 67-125): the picture was
\* loaded and has the cropped size of the meta data.
Init ==
    /\ pSceneMetaData \in SceneMetaDatas
    /\ pic = PicFile(TRUE, CroppedSize(pSceneMetaData))
    /\ panoramaWindow = RunAfterConstruction
    /\ scene = ConstMembers(pSceneMetaData)
    /\ MembersAfterInitialisers
    /\ panoSphereData = NotFollowed
    /\ displayData = NotFollowed

\* The state after a successful construction with the contents of the two
\* buffers followed.
PixelInit ==
    /\ pSceneMetaData \in SceneMetaDatas
    /\ pic = PicFile(TRUE, CroppedSize(pSceneMetaData))
    /\ panoramaWindow = RunAfterConstruction
    /\ scene = ConstMembers(pSceneMetaData)
    /\ MembersAfterInitialisers
    /\ BuffersAfterInitialisers

\* ------------------------------------------------------- PanoramaWindow::run

\* Sizes of decoded pictures: the cropped sizes of the scenes, and sizes that
\* differ from them in the width, in the height, or in both.
DecodedSizes == {<<8, 4>>, <<8, 5>>, <<6, 3>>, <<6, 4>>, <<8, 3>>, <<4, 8>>}

\* State at the call of PanoramaWindow::run: no Projector yet, and the
\* caller's request flags hold anything.
RunInit ==
    /\ pSceneMetaData \in SceneMetaDatas
    /\ pic \in {PicFile(loadable, size) : loadable \in BOOLEAN, size \in DecodedSizes}
    /\ panoramaWindow \in
         [pc : {"call"}, projector : {FALSE}, window : {FALSE},
          pRequestPrev : BOOLEAN, pRequestNext : BOOLEAN, result : {"none"}]
    /\ scene = NoProjector
    /\ MembersAfterInitialisers
    /\ BuffersAfterInitialisers

projectorVars ==
    <<viewVars, syncVars, countVars, callerPc, workerPc, lastCall, outOfBounds, displayData>>

\* Lines 106-107: both request flags are cleared first.
RunClearRequests ==
    /\ panoramaWindow.pc = "call"
    /\ panoramaWindow' = [panoramaWindow EXCEPT !.pc = "construct",
                             !.pRequestPrev = FALSE, !.pRequestNext = FALSE]
    /\ UNCHANGED <<pic, pSceneMetaData, scene>>
    /\ UNCHANGED projectorVars
    /\ UNCHANGED teamPc

\* Line 112, std::make_unique<Projector>: the constructor runs its
\* initialiser list and its body; if the body throws, no Projector exists
\* and the pointer keeps its value.
RunMakeProjector ==
    /\ panoramaWindow.pc = "construct"
    /\ IF ProjectorThrows(pSceneMetaData)
       THEN /\ panoramaWindow' = [panoramaWindow EXCEPT !.pc = "catch"]
            /\ UNCHANGED scene
       ELSE /\ panoramaWindow' = [panoramaWindow EXCEPT !.pc = "createWindow",
                                     !.projector = TRUE]
            /\ scene' = ConstMembers(pSceneMetaData)
    /\ UNCHANGED <<pic, pSceneMetaData>>
    /\ UNCHANGED projectorVars
    /\ UNCHANGED teamPc

\* Lines 114-118: the exception is reported and run returns false.
RunCatch ==
    /\ panoramaWindow.pc = "catch"
    /\ panoramaWindow' = [panoramaWindow EXCEPT !.pc = "returned", !.result = "false"]
    /\ UNCHANGED <<pic, pSceneMetaData, scene>>
    /\ UNCHANGED projectorVars
    /\ UNCHANGED teamPc

\* Line 127, createWindow.
RunCreateWindow ==
    /\ panoramaWindow.pc = "createWindow"
    /\ panoramaWindow' = [panoramaWindow EXCEPT !.pc = "windowCreated", !.window = TRUE]
    /\ UNCHANGED <<pic, pSceneMetaData, scene>>
    /\ UNCHANGED projectorVars
    /\ UNCHANGED teamPc

RunNext == RunClearRequests \/ RunMakeProjector \/ RunCatch \/ RunCreateWindow

\* PanoramaWindow::run from its call to the creation of the window.
RunSpec == RunInit /\ [][RunNext]_vars

\* ---------------------------------------------- the public calls (caller thread)

\* The caller may start a public call: it is not inside one, and the
\* Projector is alive.
CanCall == callerPc = "idle" /\ requestsPosted < MaxCalls

\* An updateDisplayData that starts a worker thread on every call.
StartAnotherUpdateDisplayThread ==
    updateDisplayThread' = "running" /\ workerPc' = "loop"

\* updateDisplayData, lines 657-658: start the worker thread unless it is
\* running.  Nothing but the caller runs before the thread exists, so this is
\* part of the step in which the public call computes the new perspective.
StartUpdateDisplayThread ==
    IF updateDisplayThread = "none"
    THEN updateDisplayThread' = "running" /\ workerPc' = "loop"
    ELSE UNCHANGED <<updateDisplayThread, workerPc>>

\* updateDisplaySize up to the handshake of updateDisplayData (lines 152-164).
updateDisplaySize(pDisplaySize, pForceAdjustResolution) ==
    /\ CanCall
    /\ displayData' = Resize(displayData, 4 * pDisplaySize[1] * pDisplaySize[2], 255)
    /\ \E r \in updateDisplayFOV(pDisplaySize, zoom, viewOffsetPhi, viewOffsetTheta,
                                 panoSphereSize, panoSphereRemapHystMaxF,
                                 pForceAdjustResolution, panoSphereData) :
         LET fit == fitViewOffset(viewOffsetPhi, viewOffsetTheta, r.displayFOV) IN
         /\ displaySize' = pDisplaySize
         /\ displayFOV' = r.displayFOV
         /\ f' = r.f
         /\ staticDisplayTrafos' = r.cache
         /\ panoSphereSize' = r.panoSphereSize
         /\ panoSphereData' = r.panoSphereData
         /\ panoSphereRemapHystMaxF' = r.maxF
         /\ viewOffsetPhi' = fit[1]
         /\ viewOffsetTheta' = fit[2]
         /\ outOfBounds' = r.oob
         /\ lastCall' = [NoCall EXCEPT !.op = "updateDisplaySize",
                                       !.remapped = r.remapped,
                                       !.zeroWeight = r.zeroWeight,
                                       !.force = pForceAdjustResolution]
    /\ StartUpdateDisplayThread
    /\ callerPc' = "postStart"
    /\ UNCHANGED geometryVars
    /\ UNCHANGED zoom
    /\ UNCHANGED <<stopUpdateDisplayThread, updateDisplayMutex, updateDisplayCondVar,
                   startUpdateDisplay, updateDisplayFinished>>
    /\ UNCHANGED countVars
    /\ UNCHANGED teamPc

\* A resolution of the zoom request that treats the no-margin sentinel 0 like
\* the centered-horizon sentinel -1.
ResolveZoomNoMarginAsCentered(pZoom) ==
    IF RatEq(pZoom, <<-1, 1>>) \/ RatEq(pZoom, <<0, 1>>) THEN minZoomCentHor
    ELSE IF RatLt(pZoom, minZoomNonCentHor) THEN minZoomNonCentHor
    ELSE pZoom

\* A resolution of the zoom request without the lower limit of line 197.
ResolveZoomWithoutLowerLimit(pZoom) ==
    IF RatEq(pZoom, <<-1, 1>>) THEN minZoomCentHor
    ELSE IF RatEq(pZoom, <<0, 1>>) THEN minZoomNonCentHor
    ELSE pZoom

\* The zoom level updateView works with after resolving the sentinels and the
\* lower limit (lines 184-198).
ResolveZoom(pZoom) ==
    IF RatEq(pZoom, <<-1, 1>>) THEN minZoomCentHor
    ELSE IF RatEq(pZoom, <<0, 1>>) THEN minZoomNonCentHor
    ELSE IF RatLt(pZoom, minZoomNonCentHor) THEN minZoomNonCentHor
    ELSE pZoom

\* A resolution of the requested vertical offset that ignores the sentinel.
ResolveThetaKeepsRequest(pZoom, pOffsetTheta) == pOffsetTheta

\* The vertical offset updateView works with (line 189).
ResolveTheta(pZoom, pOffsetTheta) ==
    IF RatEq(pZoom, <<-1, 1>>) THEN 0 ELSE pOffsetTheta

\* An updateView that recomputes the FOV parameters on every call.
zoomAlwaysChanged(z) == TRUE

\* pZoom != zoom of line 200, for the resolved zoom z.
zoomChanged(z) == ~RatEq(z, zoom)

\* updateView up to the handshake of updateDisplayData (lines 182-213), as a
\* step of the caller; `call` is what lastCall records of the public call that
\* is running.
UpdateViewBody(call, pZoom, pOffsetPhi, pOffsetTheta, pForceAdjustResolution) ==
    LET z == ResolveZoom(pZoom)
        theta == ResolveTheta(pZoom, pOffsetTheta)
        changed == zoomChanged(z)
        unchangedFOV ==
            [displayFOV |-> displayFOV, f |-> f, cache |-> staticDisplayTrafos,
             oob |-> FALSE, panoSphereSize |-> panoSphereSize,
             panoSphereData |-> panoSphereData,
             maxF |-> panoSphereRemapHystMaxF, remapped |-> FALSE,
             zeroWeight |-> FALSE]
    IN
    /\ \E r \in IF changed
                THEN updateDisplayFOV(displaySize, z, viewOffsetPhi, viewOffsetTheta,
                                      panoSphereSize, panoSphereRemapHystMaxF,
                                      pForceAdjustResolution, panoSphereData)
                ELSE {unchangedFOV} :
         LET fit == fitViewOffset(pOffsetPhi, theta, r.displayFOV) IN
         /\ zoom' = (IF changed THEN z ELSE zoom)
         /\ displayFOV' = r.displayFOV
         /\ f' = r.f
         /\ staticDisplayTrafos' = r.cache
         /\ panoSphereSize' = r.panoSphereSize
         /\ panoSphereData' = r.panoSphereData
         /\ panoSphereRemapHystMaxF' = r.maxF
         /\ viewOffsetPhi' = fit[1]
         /\ viewOffsetTheta' = fit[2]
         /\ outOfBounds' = r.oob
         /\ lastCall' = [call EXCEPT !.remapped = r.remapped,
                                     !.zeroWeight = r.zeroWeight]
    /\ StartUpdateDisplayThread
    /\ callerPc' = "postStart"
    /\ UNCHANGED geometryVars
    /\ UNCHANGED <<displaySize, displayData>>
    /\ UNCHANGED <<stopUpdateDisplayThread, updateDisplayMutex, updateDisplayCondVar,
                   startUpdateDisplay, updateDisplayFinished>>
    /\ UNCHANGED countVars
    /\ UNCHANGED teamPc

updateView(pZoom, pOffsetPhi, pOffsetTheta, pForceAdjustResolution) ==
    /\ CanCall
    /\ UpdateViewBody([op |-> "updateView", pZoom |-> pZoom,
                       pOffsetPhi |-> pOffsetPhi, pOffsetTheta |-> pOffsetTheta,
                       remapped |-> FALSE, force |-> pForceAdjustResolution,
                       zeroWeight |-> FALSE],
                      pZoom, pOffsetPhi, pOffsetTheta, pForceAdjustResolution)

\* A zoom argument for centerHorizon that does not look at the current zoom.
CenterHorizonZoomReset == minZoomCentHor

\* std::max(zoom, minZoomCentHor), the zoom centerHorizon asks for (line 225).
CenterHorizonZoom == RatMax(zoom, minZoomCentHor)

\* centerHorizon (lines 223-226).  It takes no perspective arguments; lastCall
\* records the zoom and the offsets it started from.
centerHorizon(pForceAdjustResolution) ==
    /\ CanCall
    /\ UpdateViewBody([op |-> "centerHorizon", pZoom |-> zoom,
                       pOffsetPhi |-> viewOffsetPhi, pOffsetTheta |-> viewOffsetTheta,
                       remapped |-> FALSE, force |-> pForceAdjustResolution,
                       zeroWeight |-> FALSE],
                      CenterHorizonZoom, viewOffsetPhi, 0, pForceAdjustResolution)

\* getNormalizedZoom (lines 265-268): zoom / minZoomNonCentHor.
getNormalizedZoom == RatDiv(zoom, minZoomNonCentHor)

\* ---------------------------------------------------------- the render pass

\* displayTrafosX[x] and displayTrafosY[(displaySize.x+1)*y + x] as cached in
\* lines 716-721, in PixelScale.
displayTrafosX(x) ==
    ToPixelScale(displayTrafoX(x, staticDisplayTrafos, viewOffsetPhi, panoSphereSize))
displayTrafosY(y, x) ==
    ToPixelScale(displayTrafoY(y, x, staticDisplayTrafos, viewOffsetTheta, panoSphereSize))

\* Lines 743-772: the rectangle <<tLx0, tLy>> to <<bRx0, bRy>> of the panorama
\* sphere after the horizontal wrap (360 degrees) or the horizontal clamp
\* (otherwise), and whether the pixel is out of range.
ClampRectangle(tLx0, tLy, bRx0, bRy) ==
    LET sphereX == panoSphereSize[1] * PixelScale
        rect(tLx, bRx, out) ==
            [tLx |-> tLx, tLy |-> tLy, bRx |-> bRx, bRy |-> bRy, pixelOutOfRange |-> out]
        wrapped(tLx) == rect(tLx, IF bRx0 - tLx < 0 THEN bRx0 + sphereX ELSE bRx0, FALSE)
    IN  IF fovIs360Degrees
        THEN wrapped(IF tLx0 < 0 THEN tLx0 + sphereX ELSE tLx0)
        ELSE IF tLx0 < 0
             THEN IF bRx0 < 0 THEN rect(0, 0, TRUE) ELSE rect(0, bRx0, FALSE)
             ELSE IF ToInt(bRx0) >= panoSphereSize[1]
                  THEN IF tLx0 > sphereX - 1 THEN rect(sphereX - 1, sphereX - 1, TRUE)
                       ELSE rect(tLx0, sphereX - 1, FALSE)
                  ELSE rect(tLx0, bRx0, FALSE)

\* Lines 737-741: the rectangle of the panorama sphere that the display pixel
\* <<x, y>> is interpolated from.
PixelRectangle(x, y) ==
    ClampRectangle(displayTrafosX(x), displayTrafosY(y, x),
                   displayTrafosX(x + 1), displayTrafosY(y + 1, x + 1))

\* Lines 774-791 for a pixel with the rectangle r: black if out of range,
\* interpolated from the panorama sphere otherwise.
RenderRectangle(r, garbage) ==
    IF r.pixelOutOfRange
    THEN [rgb |-> <<0, 0, 0>>, wrapped |-> FALSE, oob |-> FALSE, nan |-> FALSE,
          undefined |-> FALSE]
    ELSE interpolatePixel(panoSphereSize, panoSphereData,
                          r.tLx, r.tLy, r.bRx, r.bRy, garbage)

\* What the pass does for the display pixel <<x, y>>.
RenderPixel(x, y, garbage) == RenderRectangle(PixelRectangle(x, y), garbage)

\* The pixel loop of lines 733-793 from display pixel number p on.  `buffer`
\* holds the display buffer and whether an access left a buffer.
RECURSIVE RenderPixels(_, _, _)
RenderPixels(p, buffer, garbage) ==
    IF p >= displaySize[1] * displaySize[2] \/ buffer.data = NotFollowed THEN buffer
    ELSE RenderPixels(p + 1,
                      StorePixel(buffer, p,
                                 RenderPixel(p % displaySize[1], p \div displaySize[1],
                                             garbage)),
                      garbage)

\* One pass: the new display buffer, whether an access left a buffer and
\* whether a byte written is the result of undefined behaviour.
RenderPass(garbage) ==
    RenderPixels(0, [data |-> displayData,
                     oob |-> /\ displayData # NotFollowed
                             /\ Len(displayData) < 4 * displaySize[1] * displaySize[2],
                     undefined |-> FALSE, zeroWeight |-> FALSE],
                 garbage)

\* The display buffers a pass can produce: one, unless a byte of it is the
\* result of undefined behaviour.
RenderPasses ==
    LET any == RenderPass(AnyGarbage)
    IN  IF any.undefined
        THEN {any} \cup {RenderPass(garbage) : garbage \in GarbageBytes \ {AnyGarbage}}
        ELSE {any}

\* ------------------------------------------------ mutex, condition variable

\* std::condition_variable::notify_one: one of the threads blocked in wait()
\* is released, if there is one; otherwise the notification is lost.
NotifyOne ==
    IF updateDisplayCondVar = {}
    THEN updateDisplayCondVar' = updateDisplayCondVar
    ELSE \E t \in updateDisplayCondVar :
            updateDisplayCondVar' = updateDisplayCondVar \ {t}

\* wait(lock, pred) is while (!pred()) wait(lock): the predicate is evaluated
\* with the mutex held; wait(lock) then releases the mutex and blocks in one
\* atomic step, and re-acquires the mutex after it has been released.
\* Statements that a thread executes between acquiring and releasing the mutex
\* and that touch nothing but its own locals and mutex-protected flags are one
\* step; a step that leaves the mutex held is followed by one that releases it.

\* A worker that starts a pass without waiting for a request.
WorkerDoesNotWait == TRUE

\* The worker's wait predicate (line 703).
WorkerWaitPredicate == startUpdateDisplay \/ stopUpdateDisplayThread

\* A caller that takes the pass for finished without looking at the flag.
CallerDoesNotWait == TRUE

\* The caller's wait predicate (line 667).
CallerWaitPredicate == updateDisplayFinished

\* A thread blocked in wait() may wake up without a notification.
SpuriousWakeup ==
    /\ \E t \in updateDisplayCondVar :
          updateDisplayCondVar' = updateDisplayCondVar \ {t}
    /\ UNCHANGED <<updateDisplayThread, stopUpdateDisplayThread, updateDisplayMutex,
                   startUpdateDisplay, updateDisplayFinished>>
    /\ UNCHANGED <<callerPc, workerPc, lastCall, outOfBounds, displayData>>
    /\ UNCHANGED geometryVars
    /\ UNCHANGED viewVars
    /\ UNCHANGED countVars
    /\ UNCHANGED teamPc

\* ------------------------------------------- updateDisplayData (caller thread)

callerFrame == <<workerPc, lastCall, outOfBounds, displayData, geometryVars>>

\* Lines 661-663: lock, startUpdateDisplay = true, unlock.
CallerPostStart ==
    /\ callerPc = "postStart"
    /\ updateDisplayMutex = "free"
    /\ startUpdateDisplay' = TRUE
    /\ requestsPosted' = requestsPosted + 1
    /\ callerPc' = "notifyStart"
    /\ UNCHANGED <<updateDisplayThread, stopUpdateDisplayThread, updateDisplayMutex,
                   updateDisplayCondVar, updateDisplayFinished>>
    /\ UNCHANGED <<requestsReturned, passesStarted, passesCompleted>>
    /\ UNCHANGED callerFrame
    /\ UNCHANGED viewVars
    /\ UNCHANGED teamPc

\* Lines 664-665: updateDisplayCondVar.notify_one(); yield.
CallerNotifyStart ==
    /\ callerPc = "notifyStart"
    /\ NotifyOne
    /\ callerPc' = "waitFinished"
    /\ UNCHANGED <<updateDisplayThread, stopUpdateDisplayThread, updateDisplayMutex,
                   startUpdateDisplay, updateDisplayFinished>>
    /\ UNCHANGED callerFrame
    /\ UNCHANGED viewVars
    /\ UNCHANGED countVars
    /\ UNCHANGED teamPc

\* Lines 666-669: lock (or re-acquire the mutex inside wait() once released)
\* and evaluate the predicate.  If it holds, reset the flag, release the mutex
\* and return to the caller of the public call; otherwise go on to block.
CallerWaitFinished ==
    /\ callerPc = "waitFinished"
    /\ "caller" \notin updateDisplayCondVar
    /\ updateDisplayMutex = "free"
    /\ IF CallerWaitPredicate
       THEN /\ updateDisplayFinished' = FALSE
            /\ requestsReturned' = requestsReturned + 1
            /\ callerPc' = "idle"
            /\ UNCHANGED updateDisplayMutex
       ELSE /\ updateDisplayMutex' = "caller"
            /\ callerPc' = "blockFinished"
            /\ UNCHANGED <<updateDisplayFinished, requestsReturned>>
    /\ UNCHANGED <<updateDisplayThread, stopUpdateDisplayThread, updateDisplayCondVar,
                   startUpdateDisplay>>
    /\ UNCHANGED <<requestsPosted, passesStarted, passesCompleted>>
    /\ UNCHANGED callerFrame
    /\ UNCHANGED viewVars
    /\ UNCHANGED teamPc

\* Inside wait(): release the mutex and block, atomically.
CallerBlockFinished ==
    /\ callerPc = "blockFinished"
    /\ updateDisplayMutex' = "free"
    /\ updateDisplayCondVar' = updateDisplayCondVar \cup {"caller"}
    /\ callerPc' = "waitFinished"
    /\ UNCHANGED <<updateDisplayThread, stopUpdateDisplayThread,
                   startUpdateDisplay, updateDisplayFinished>>
    /\ UNCHANGED callerFrame
    /\ UNCHANGED viewVars
    /\ UNCHANGED countVars
    /\ UNCHANGED teamPc

\* ------------------------------------------------- ~Projector (caller thread)

\* Line 134: stopUpdateDisplayThread.store(true), without the mutex.
DestructorStop ==
    /\ callerPc = "idle"
    /\ stopUpdateDisplayThread' = TRUE
    /\ callerPc' = "destructorNotify"
    /\ UNCHANGED <<updateDisplayThread, updateDisplayMutex, updateDisplayCondVar,
                   startUpdateDisplay, updateDisplayFinished>>
    /\ UNCHANGED callerFrame
    /\ UNCHANGED viewVars
    /\ UNCHANGED countVars
    /\ UNCHANGED teamPc

\* Line 135: updateDisplayCondVar.notify_one().
DestructorNotify ==
    /\ callerPc = "destructorNotify"
    /\ NotifyOne
    /\ callerPc' = "destructorJoin"
    /\ UNCHANGED <<updateDisplayThread, stopUpdateDisplayThread, updateDisplayMutex,
                   startUpdateDisplay, updateDisplayFinished>>
    /\ UNCHANGED callerFrame
    /\ UNCHANGED viewVars
    /\ UNCHANGED countVars
    /\ UNCHANGED teamPc

\* Lines 137-138: join the worker if there is one; join() returns when the
\* worker has left updateDisplayDataLoop.
DestructorJoin ==
    /\ callerPc = "destructorJoin"
    /\ IF updateDisplayThread = "running"
       THEN workerPc = "exited" /\ updateDisplayThread' = "joined"
       ELSE UNCHANGED updateDisplayThread
    /\ callerPc' = "destroyed"
    /\ UNCHANGED <<stopUpdateDisplayThread, updateDisplayMutex, updateDisplayCondVar,
                   startUpdateDisplay, updateDisplayFinished>>
    /\ UNCHANGED callerFrame
    /\ UNCHANGED viewVars
    /\ UNCHANGED countVars
    /\ UNCHANGED teamPc

\* ----------------------------------------- updateDisplayDataLoop (worker thread)

workerFrame == <<callerPc, lastCall, geometryVars>>

\* Line 695: while (!stopUpdateDisplayThread.load()).
WorkerLoop ==
    /\ workerPc = "loop"
    /\ workerPc' = (IF stopUpdateDisplayThread THEN "exited" ELSE "wait")
    /\ UNCHANGED syncVars
    /\ UNCHANGED workerFrame
    /\ UNCHANGED <<outOfBounds, displayData>>
    /\ UNCHANGED viewVars
    /\ UNCHANGED countVars
    /\ UNCHANGED teamPc

\* Lines 702-705: lock (or re-acquire the mutex inside wait() once released)
\* and evaluate the predicate.  If it holds, startUpdateDisplay = false and
\* the mutex is released at the end of the block; otherwise go on to block.
WorkerWait ==
    /\ workerPc = "wait"
    /\ "worker" \notin updateDisplayCondVar
    /\ updateDisplayMutex = "free"
    /\ IF WorkerWaitPredicate
       THEN /\ startUpdateDisplay' = FALSE
            /\ workerPc' = "prepare"
            /\ UNCHANGED updateDisplayMutex
       ELSE /\ updateDisplayMutex' = "worker"
            /\ workerPc' = "block"
            /\ UNCHANGED startUpdateDisplay
    /\ UNCHANGED <<updateDisplayThread, stopUpdateDisplayThread, updateDisplayCondVar,
                   updateDisplayFinished>>
    /\ UNCHANGED workerFrame
    /\ UNCHANGED <<outOfBounds, displayData>>
    /\ UNCHANGED viewVars
    /\ UNCHANGED countVars
    /\ UNCHANGED teamPc

\* Inside wait(): release the mutex and block, atomically.
WorkerBlock ==
    /\ workerPc = "block"
    /\ updateDisplayMutex' = "free"
    /\ updateDisplayCondVar' = updateDisplayCondVar \cup {"worker"}
    /\ workerPc' = "wait"
    /\ UNCHANGED <<updateDisplayThread, stopUpdateDisplayThread,
                   startUpdateDisplay, updateDisplayFinished>>
    /\ UNCHANGED workerFrame
    /\ UNCHANGED <<outOfBounds, displayData>>
    /\ UNCHANGED viewVars
    /\ UNCHANGED countVars
    /\ UNCHANGED teamPc

\* The loops of lines 716-721 read staticDisplayTrafosX[x] for x <= displaySize.x
\* and staticDisplayTrafosY[(displaySize.x+1)*y + x] for y <= displaySize.y.
PrepareReadsOutOfBounds ==
    \/ displaySize[1] >= StaticTrafosXLen(staticDisplayTrafos)
    \/ (displaySize[1] + 1) * displaySize[2] + displaySize[1]
           >= StaticTrafosYLen(staticDisplayTrafos)

\* Lines 707-722: unless stopped, cache the transformation values of the
\* current perspective; a render pass begins.
WorkerPrepare ==
    /\ workerPc = "prepare"
    /\ IF ~stopUpdateDisplayThread
       THEN /\ passesStarted' = passesStarted + 1
            /\ outOfBounds' = (outOfBounds \/ PrepareReadsOutOfBounds)
       ELSE UNCHANGED <<passesStarted, outOfBounds>>
    /\ workerPc' = "render"
    /\ UNCHANGED displayData
    /\ UNCHANGED <<requestsPosted, requestsReturned, passesCompleted>>
    /\ UNCHANGED syncVars
    /\ UNCHANGED workerFrame
    /\ UNCHANGED viewVars
    /\ UNCHANGED teamPc

\* Lines 725-793: leave the loop if stopped, otherwise run the pixel loop over
\* the whole display buffer.
WorkerRender ==
    /\ workerPc = "render"
    /\ IF stopUpdateDisplayThread
       THEN /\ workerPc' = "exited"
            /\ UNCHANGED <<passesCompleted, displayData, outOfBounds>>
       ELSE /\ workerPc' = "setFinished"
            /\ passesCompleted' = passesCompleted + 1
            /\ \E pass \in RenderPasses :
                  /\ displayData' = pass.data
                  /\ outOfBounds' = (outOfBounds \/ pass.oob)
    /\ UNCHANGED <<requestsPosted, requestsReturned, passesStarted>>
    /\ UNCHANGED syncVars
    /\ UNCHANGED workerFrame
    /\ UNCHANGED viewVars
    /\ UNCHANGED teamPc

\* Lines 799-801: lock, updateDisplayFinished = true, unlock.
WorkerSetFinished ==
    /\ workerPc = "setFinished"
    /\ updateDisplayMutex = "free"
    /\ updateDisplayFinished' = TRUE
    /\ workerPc' = "notifyFinished"
    /\ UNCHANGED <<updateDisplayThread, stopUpdateDisplayThread, updateDisplayMutex,
                   updateDisplayCondVar, startUpdateDisplay>>
    /\ UNCHANGED workerFrame
    /\ UNCHANGED <<outOfBounds, displayData>>
    /\ UNCHANGED viewVars
    /\ UNCHANGED countVars
    /\ UNCHANGED teamPc

\* Line 802: updateDisplayCondVar.notify_one(), then back to the loop head.
WorkerNotifyFinished ==
    /\ workerPc = "notifyFinished"
    /\ NotifyOne
    /\ workerPc' = "loop"
    /\ UNCHANGED <<updateDisplayThread, stopUpdateDisplayThread, updateDisplayMutex,
                   startUpdateDisplay, updateDisplayFinished>>
    /\ UNCHANGED workerFrame
    /\ UNCHANGED <<outOfBounds, displayData>>
    /\ UNCHANGED viewVars
    /\ UNCHANGED countVars
    /\ UNCHANGED teamPc

\* ---------------------------------------------------------- specifications

Caller ==
    \/ \E size \in DisplaySizes, force \in BOOLEAN : updateDisplaySize(size, force)
    \/ \E z \in ZoomInputs, o \in OffsetInputs, force \in BOOLEAN :
          updateView(z, o[1], o[2], force)
    \/ \E force \in BOOLEAN : centerHorizon(force)
    \/ CallerPostStart
    \/ CallerNotifyStart
    \/ CallerWaitFinished
    \/ CallerBlockFinished

Destructor ==
    \/ DestructorStop
    \/ DestructorNotify
    \/ DestructorJoin

Worker ==
    \/ WorkerLoop
    \/ WorkerWait
    \/ WorkerBlock
    \/ WorkerPrepare
    \/ WorkerRender
    \/ WorkerSetFinished
    \/ WorkerNotifyFinished

Next == Caller \/ Destructor \/ Worker \/ SpuriousWakeup

Spec == Init /\ [][Next]_vars

\* One request of each kind, for the properties of the handshake and of the
\* teardown that do not depend on the perspective asked for.
TeardownCaller ==
    \/ updateDisplaySize(<<MaxDisplay, MaxDisplay>>, FALSE)
    \/ updateView(<<0, 1>>, 10000, 0, FALSE)
    \/ centerHorizon(FALSE)
    \/ CallerPostStart
    \/ CallerNotifyStart
    \/ CallerWaitFinished
    \/ CallerBlockFinished

TeardownNext == TeardownCaller \/ Destructor \/ Worker \/ SpuriousWakeup

\* Fair scheduling: a thread that can take a step eventually takes it, and
\* the application eventually destroys the Projector.  A blocked thread is
\* not owed a spurious wake-up.
FairSpec ==
    /\ Init
    /\ [][TeardownNext]_vars
    /\ WF_vars(Worker)
    /\ WF_vars(CallerPostStart \/ CallerNotifyStart \/ CallerWaitFinished
                 \/ CallerBlockFinished)
    /\ WF_vars(Destructor)

\* Length of the long side of the displays that are one pixel wide or high.
LongDisplay == 6

\* Display sizes and perspectives asked for while the contents of the buffers
\* are followed: a display of one pixel, a square one, a wide and a tall one
\* (their outermost pixels look past the scene when the zoom is below the
\* minimum); both zoom sentinels and a zoom above every minimum; the view
\* PanoramaWindow::run starts with and one that has to be fitted.
PixelDisplaySizes ==
    {<<1, 1>>, <<MaxDisplay, MaxDisplay>>, <<LongDisplay, 1>>, <<1, LongDisplay>>}
PixelZoomInputs == {<<-1, 1>>, <<0, 1>>, <<3, 1>>}
PixelOffsetInputs == {<<0, 0>>, <<-5000, -9000>>}

PixelCaller ==
    \/ \E size \in PixelDisplaySizes : updateDisplaySize(size, FALSE)
    \/ \E z \in PixelZoomInputs, o \in PixelOffsetInputs :
          updateView(z, o[1], o[2], FALSE)
    \/ centerHorizon(FALSE)
    \/ CallerPostStart
    \/ CallerNotifyStart
    \/ CallerWaitFinished
    \/ CallerBlockFinished

PixelNext == PixelCaller \/ Worker

\* The Projector with the contents of its two buffers, from its construction
\* to the return of its last public call.
PixelSpec == PixelInit /\ [][PixelNext]_vars

\* ------------------------------------------------------------------ properties

\* A public call has been made and has returned.
CallCompleted == callerPc = "idle" /\ lastCall.op # "none"

\* The calling thread is inside updateDisplayData.
CallerInUpdateDisplayData ==
    callerPc \in {"postStart", "notifyStart", "waitFinished", "blockFinished"}

\* The scene's crop is symmetric about the horizon.
CropSymmetricAboutHorizon == fovTL[2] = -fovBR[2]

\* C1: every redraw request is synchronous.  A request returns only after a
\* pass that began after it was posted has completed (returned <= completed,
\* started <= posted), passes do not overlap and run only while the caller is
\* inside updateDisplayData, and whenever the caller is outside it the number
\* of requests posted, requests returned, passes started and passes completed
\* are all the same: after the k-th return exactly k passes have completed.
RedrawIsSynchronous ==
    /\ requestsReturned <= passesCompleted
    /\ passesCompleted <= passesStarted
    /\ passesStarted <= passesCompleted + 1
    /\ passesStarted <= requestsPosted
    /\ requestsPosted <= requestsReturned + 1
    /\ (passesStarted > passesCompleted) => (workerPc = "render" /\ CallerInUpdateDisplayData)
    /\ ~CallerInUpdateDisplayData =>
          /\ requestsReturned = requestsPosted
          /\ passesCompleted = requestsPosted
          /\ passesStarted = requestsPosted

\* C1, the case: the last of MaxCalls requests has returned.
RedrawIsSynchronousWitness ==
    /\ callerPc = "idle"
    /\ requestsReturned = MaxCalls
    /\ passesCompleted = MaxCalls

\* C2: once the destructor has set the stop flag it returns: the worker
\* leaves updateDisplayDataLoop and the join completes.
DestructorTerminates ==
    (callerPc = "destructorNotify") ~> (callerPc = "destroyed")

\* C3: after every completed updateDisplaySize, updateView or centerHorizon the
\* visible rectangle lies inside the scene at the top and at the bottom:
\* displayFOV.y / 2 - viewOffsetTheta <= fovTL.y and
\* displayFOV.y / 2 + viewOffsetTheta <= -fovBR.y.
ThetaFittedOnBothSides ==
    CallCompleted =>
        /\ displayFOV[2] - 2 * viewOffsetTheta <= 2 * fovTL[2]
        /\ displayFOV[2] + 2 * viewOffsetTheta <= -2 * fovBR[2]

\* C4: for a 360 degree scene the horizontal offset is in [0, 2 pi) after
\* every completed updateView, whatever phi was asked for.
PhiWithinOneTurn ==
    (CallCompleted /\ lastCall.op = "updateView" /\ fovIs360Degrees) =>
        (0 <= viewOffsetPhi /\ viewOffsetPhi < TwoPi)

\* C5: for a scene that is not 360 degrees wide, once an offset has been
\* fitted: if displayFOV.x <= fovCentHor.x the offset lies in
\* [displayFOV.x / 2, fovCentHor.x - displayFOV.x / 2], and if
\* displayFOV.x > fovCentHor.x it is fovCentHor.x / 2.
PhiFittedNon360 ==
    (lastCall.op # "none" /\ ~fovIs360Degrees) =>
        /\ FLe(displayFOV[1], fovCentHor[1]) =>
              /\ displayFOV[1] <= 2 * viewOffsetPhi
              /\ 2 * viewOffsetPhi <= 2 * fovCentHor[1] - displayFOV[1]
        /\ FGt(displayFOV[1], fovCentHor[1]) => 2 * viewOffsetPhi = fovCentHor[1]

\* C5, the case: a phi more than a turn below 0 was asked for on a display
\* with a FOV, and the offset sits on the lower limit.
PhiFittedNon360Witness ==
    /\ CallCompleted
    /\ ~fovIs360Degrees
    /\ lastCall.op = "updateView"
    /\ lastCall.pOffsetPhi = -70000
    /\ displayFOV[1] # NaN
    /\ displayFOV[1] > 0
    /\ displayFOV[1] < fovCentHor[1]
    /\ 2 * viewOffsetPhi = displayFOV[1]

ZoomAtLeastNoMarginMinimum ==
    (CallCompleted /\ lastCall.op \in {"updateView", "centerHorizon"}) =>
        /\ ~RatLt(zoom, minZoomNonCentHor)
        /\ ( /\ lastCall.op = "updateView"
             /\ lastCall.pZoom[1] > 0
             /\ ~RatLt(lastCall.pZoom, minZoomNonCentHor) ) => zoom = lastCall.pZoom

\* C9, the case: a zoom below the minimum was asked for and the minimum is
\* stored.
ZoomAtLeastNoMarginMinimumWitness ==
    /\ CallCompleted
    /\ lastCall.op = "updateView"
    /\ lastCall.pZoom = <<1, 2>>
    /\ RatLt(lastCall.pZoom, minZoomNonCentHor)
    /\ RatEq(zoom, minZoomNonCentHor)

\* C10: an updateDisplaySize with a width or a height of 0 reads and writes
\* nothing outside a buffer or cache, in the call and in its render pass.
ZeroSizeStaysInBounds ==
    ( /\ lastCall.op = "updateDisplaySize"
      /\ (displaySize[1] = 0 \/ displaySize[2] = 0) ) => ~outOfBounds

\* C11: when the picture cannot be loaded or its decoded size differs from
\* cropPosBR - cropPosTL, the construction fails: run ends up in its catch
\* block and returns false, with no Projector, no worker thread, no window and
\* both request flags false.  When the picture loads with the cropped size,
\* the construction succeeds.
ConstructionFailsOnBadPicture ==
    LET bad == \/ ~pic.loadable
               \/ pic.size # <<pSceneMetaData.cropPosBR[1] - pSceneMetaData.cropPosTL[1],
                               pSceneMetaData.cropPosBR[2] - pSceneMetaData.cropPosTL[2]>>
        pc == panoramaWindow.pc
    IN  /\ (bad /\ pc \notin {"call", "construct"}) =>
              /\ pc \in {"catch", "returned"}
              /\ ~panoramaWindow.projector
              /\ scene = NoProjector
              /\ updateDisplayThread = "none"
              /\ ~panoramaWindow.window
              /\ ~panoramaWindow.pRequestPrev
              /\ ~panoramaWindow.pRequestNext
        /\ (pc = "returned") => panoramaWindow.result = "false"
        /\ (~bad /\ pc \notin {"call", "construct"}) =>
              /\ pc \in {"createWindow", "windowCreated"}
              /\ panoramaWindow.projector
              /\ scene = ConstMembers(pSceneMetaData)
              /\ panoramaWindow.result = "none"

\* run has returned false for a picture that loads, has the announced width
\* but not the announced height.
ConstructionFailsOnBadPictureWitness ==
    /\ panoramaWindow.pc = "returned"
    /\ panoramaWindow.result = "false"
    /\ pic.loadable
    /\ pic.size[1] = pSceneMetaData.cropPosBR[1] - pSceneMetaData.cropPosTL[1]
    /\ pic.size[2] # pSceneMetaData.cropPosBR[2] - pSceneMetaData.cropPosTL[2]

\* C12: in every reachable state the display buffer has exactly
\* 4 * displaySize.x * displaySize.y bytes, and the alpha byte of every pixel
\* (byte 4 k + 3, element 4 k + 4 here) is 255: updateDisplaySize fills new
\* pixels with 255 and a render pass writes R, G and B only.
DisplayBufferSizedAndOpaque ==
    /\ Len(displayData) = 4 * displaySize[1] * displaySize[2]
    /\ \A k \in 0..(displaySize[1] * displaySize[2] - 1) : displayData[4 * k + 4] = 255

\* A display that was rendered with one pixel has grown to four pixels: the
\* first pixel still holds the colour of the pass, the new ones are filled
\* with 255, and the pass for the new size has not written to it.
DisplayBufferSizedAndOpaqueWitness ==
    /\ requestsPosted = 2
    /\ passesCompleted = 1
    /\ lastCall.op = "updateDisplaySize"
    /\ displaySize = <<MaxDisplay, MaxDisplay>>
    /\ SubSeq(displayData, 1, 4) = FlatColour
    /\ \A i \in 5..Len(displayData) : displayData[i] = 255

\* The worker has completed a pass and has not yet set updateDisplayFinished:
\* the caller is still inside the call that asked for the pass, and
\* displayData holds what the pass wrote for the perspective of this state.
PassJustCompleted == workerPc = "setFinished"

\* The display pixels <<x, y>>.
DisplayPixels == (0..(displaySize[1] - 1)) \X (0..(displaySize[2] - 1))

\* The R, G, B bytes of display pixel <<x, y>>.
DisplayColour(x, y) ==
    SubSeq(displayData, 4 * (displaySize[1] * y + x) + 1, 4 * (displaySize[1] * y + x) + 3)

\* The pre-image of display pixel <<x, y>> (lines 738-741, before any wrap or
\* clamp) has no point in the panorama sphere buffer.
PreImageOutsideSphere(x, y) ==
    \/ displayTrafosX(x + 1) < 0
    \/ displayTrafosX(x) >= panoSphereSize[1] * PixelScale
    \/ displayTrafosY(y + 1, x + 1) < 0
    \/ displayTrafosY(y, x) >= panoSphereSize[2] * PixelScale

\* C13: after a render pass for a scene of less than 360 degrees, every
\* display pixel whose pre-image lies completely outside the panorama sphere
\* buffer is black, and no pixel was interpolated from a source pixel fetched
\* through the horizontal wrap offset.
OutsidePixelsBlackNoWrap ==
    (PassJustCompleted /\ ~fovIs360Degrees) =>
        \A p \in DisplayPixels :
            /\ PreImageOutsideSphere(p[1], p[2]) => DisplayColour(p[1], p[2]) = <<0, 0, 0>>
            /\ \A garbage \in GarbageBytes : ~RenderPixel(p[1], p[2], garbage).wrapped

\* C14: flat-colour round trip.  The picture has one colour (FlatColour);
\* after mapPicToPanoSphere and a render pass every display pixel that the
\* pass interpolated has that colour, for both projections and every
\* perspective (pixels painted black as out of range are left out).
FlatColourRoundTrip ==
    PassJustCompleted =>
        \A p \in DisplayPixels :
            \/ PixelRectangle(p[1], p[2]).pixelOutOfRange
            \/ DisplayColour(p[1], p[2]) = SubSeq(FlatColour, 1, 3)

\* ------------------------------------------------- resolution hysteresis

\* The caller's step that runs a public call up to the handshake.
PublicCallStep == callerPc = "idle" /\ callerPc' = "postStart"

\* The public call of the step ran updateDisplayFOV: updateDisplaySize always
\* does (line 161), updateView only if the zoom changes (lines 200-205).
RanUpdateDisplayFOV ==
    /\ PublicCallStep
    /\ lastCall'.op = "updateDisplaySize" \/ ~RatEq(zoom', zoom)

\* The oversampling updateDisplayFOV finds in line 630: that of the new cache
\* with the view offsets and the sphere size from before the call.
OversamplingBeforeRemap ==
    calcLowestDisplayTrafoOversampling(staticDisplayTrafos', viewOffsetPhi,
                                       viewOffsetTheta, panoSphereSize)

\* C15: on every display-size or zoom change without forced refresh,
\* updateDisplayFOV re-maps the panorama sphere if and only if (oversampling
\* < 1.0 and (maxUsableFocalLength = 0 or f < maxUsableFocalLength)) or
\* oversampling > 2.0; while the oversampling is within [1.0, 2.0] the sphere
\* size and contents are left unchanged.
RemapIffOutsideHysteresis ==
    [][RanUpdateDisplayFOV =>
         \E over \in OversamplingBeforeRemap :
            /\ lastCall'.remapped <=>
                  \/ /\ FLt(over, FixedScale)
                     /\ (panoSphereRemapHystMaxF = 0 \/ f' < panoSphereRemapHystMaxF)
                  \/ FGt(over, 2 * FixedScale)
            /\ (over # NaN /\ over >= FixedScale /\ over <= 2 * FixedScale)
                  => /\ panoSphereSize' = panoSphereSize
                     /\ panoSphereData' = panoSphereData]_vars

\* A second call that changed the zoom and re-mapped the sphere to another size.
RemapIffOutsideHysteresisWitness ==
    /\ callerPc = "postStart"
    /\ requestsPosted = 1
    /\ lastCall.op = "updateView"
    /\ lastCall.remapped
    /\ panoSphereData # NotFollowed
    /\ Len(panoSphereData) > 0

\* ------------------------------------------------- the focal length limit

\* Display sizes for the hysteresis of the sphere resolution: those of
\* PixelDisplaySizes and a tall display one pixel shorter than the longest, so
\* that a size change lowers f a little.
HysteresisDisplaySizes == PixelDisplaySizes \cup {<<1, LongDisplay - 1>>}

\* Forced and unforced calls with these sizes; the contents of the buffers
\* are not followed.
HysteresisCaller ==
    \/ \E size \in HysteresisDisplaySizes, force \in BOOLEAN :
          updateDisplaySize(size, force)
    \/ \E z \in PixelZoomInputs, o \in PixelOffsetInputs, force \in BOOLEAN :
          updateView(z, o[1], o[2], force)
    \/ \E force \in BOOLEAN : centerHorizon(force)
    \/ CallerPostStart
    \/ CallerNotifyStart
    \/ CallerWaitFinished
    \/ CallerBlockFinished

HysteresisNext == HysteresisCaller \/ Worker

HysteresisSpec == Init /\ [][HysteresisNext]_vars

\* updateDisplayFOV ran in the step and read its caches inside their bounds,
\* so that the oversampling it found is a single value.
RanUpdateDisplayFOVInBounds ==
    /\ RanUpdateDisplayFOV
    /\ ~OversamplingReadsOutOfBounds(staticDisplayTrafos')

\* The oversampling found in line 630 is below the lower limit.
LowOversamplingBeforeRemap ==
    \A over \in OversamplingBeforeRemap : FLt(over, panoSphereRemapHystMinOvers)

\* The oversampling found in line 639, with the sphere size after the call, is
\* below the lower limit.
LowOversamplingAfterRemap ==
    \A over \in calcLowestDisplayTrafoOversampling(staticDisplayTrafos', viewOffsetPhi,
                                                   viewOffsetTheta, panoSphereSize') :
        FLt(over, panoSphereRemapHystMinOvers)

\* The sphere is to be re-mapped whether or not the refresh is forced.
RemapSphereBeforeRemap ==
    \A over \in OversamplingBeforeRemap :
        \/ /\ FLt(over, panoSphereRemapHystMinOvers)
           /\ (panoSphereRemapHystMaxF = 0 \/ f' < panoSphereRemapHystMaxF)
        \/ FGt(over, panoSphereRemapHystMaxOvers)

\* A re-map for low oversampling that leaves the oversampling low sets the
\* limit to the new f.
DeadEndLearned ==
    (/\ lastCall'.remapped
     /\ LowOversamplingBeforeRemap
     /\ panoSphereRemapHystMaxF = 0 \/ f' < panoSphereRemapHystMaxF
     /\ LowOversamplingAfterRemap)
        => panoSphereRemapHystMaxF' = f'

\* With the limit set, an unforced change at or above it with low
\* oversampling does not re-map.
NoRemapAtOrAboveLimit ==
    (/\ ~lastCall'.force
     /\ panoSphereRemapHystMaxF # 0
     /\ f' >= panoSphereRemapHystMaxF
     /\ LowOversamplingBeforeRemap)
        => ~lastCall'.remapped

\* With the limit set, a change below it with low oversampling re-maps.
RemapBelowLimit ==
    (/\ panoSphereRemapHystMaxF # 0
     /\ f' < panoSphereRemapHystMaxF
     /\ LowOversamplingBeforeRemap)
        => lastCall'.remapped

\* A re-map that only the forced refresh asked for leaves the limit alone.
ForcedRemapKeepsLimit ==
    (/\ lastCall'.force
     /\ lastCall'.remapped
     /\ ~RemapSphereBeforeRemap)
        => panoSphereRemapHystMaxF' = panoSphereRemapHystMaxF

\* C16: when a re-map triggered by low oversampling still leaves the
\* oversampling below 1.0, maxUsableFocalLength is set to the current f; every
\* later unforced zoom or size change with f >= maxUsableFocalLength and
\* oversampling < 1.0 performs no re-map, and a later change with
\* f < maxUsableFocalLength and oversampling < 1.0 re-maps again; a re-map
\* performed only because the refresh is forced never changes
\* maxUsableFocalLength.
DeadEndLearning ==
    [][RanUpdateDisplayFOVInBounds =>
         /\ DeadEndLearned
         /\ NoRemapAtOrAboveLimit
         /\ RemapBelowLimit
         /\ ForcedRemapKeepsLimit]_vars

\* The second call was unforced and at or above the limit that the first call
\* had set; the oversampling is low and the sphere was not re-mapped.
DeadEndLearningWitness ==
    /\ callerPc = "postStart"
    /\ requestsPosted = 1
    /\ lastCall.op = "updateView"
    /\ ~lastCall.force
    /\ ~lastCall.remapped
    /\ panoSphereRemapHystMaxF # 0
    /\ f > panoSphereRemapHystMaxF
    /\ \A over \in calcLowestDisplayTrafoOversampling(staticDisplayTrafos, viewOffsetPhi,
                                                      viewOffsetTheta, panoSphereSize) :
          FLt(over, panoSphereRemapHystMinOvers)

\* ------------------------------------------------- updateView, same zoom

\* The step is an updateView call whose resolved zoom is the current zoom.
UpdateViewKeepsZoom ==
    /\ PublicCallStep
    /\ lastCall'.op = "updateView"
    /\ RatEq(ResolveZoom(lastCall'.pZoom), zoom)

\* The step is the return of an updateView call from updateDisplayData.
UpdateViewReturns ==
    /\ callerPc = "waitFinished"
    /\ callerPc' = "idle"
    /\ lastCall.op = "updateView"

\* C17: an updateView call whose resolved zoom equals the current zoom leaves
\* f, displayFOV, the view-angle cache, the panorama sphere (size and contents)
\* and maxUsableFocalLength unchanged, also when the refresh is forced; the
\* offsets are re-fitted to the unchanged displayFOV and the call makes exactly
\* one redraw: it enters updateDisplayData with every earlier request served,
\* and when it returns one more pass has completed.
SameZoomKeepsFOV ==
    /\ [][UpdateViewKeepsZoom =>
            /\ zoom' = zoom
            /\ f' = f
            /\ displayFOV' = displayFOV
            /\ staticDisplayTrafos' = staticDisplayTrafos
            /\ panoSphereSize' = panoSphereSize
            /\ panoSphereData' = panoSphereData
            /\ panoSphereRemapHystMaxF' = panoSphereRemapHystMaxF
            /\ ~lastCall'.remapped
            /\ viewOffsetPhi' = FitPhi(lastCall'.pOffsetPhi, displayFOV)
            /\ viewOffsetTheta' =
                  FitTheta(ResolveTheta(lastCall'.pZoom, lastCall'.pOffsetTheta),
                           displayFOV)
            /\ passesCompleted = requestsPosted]_vars
    /\ [][UpdateViewReturns =>
            /\ passesCompleted' = requestsPosted'
            /\ passesCompleted' = requestsReturned']_vars

\* After updateDisplaySize, a forced updateView that asks for a zoom below the
\* minimum of a scene whose minimum is the current zoom has returned: the
\* sphere was not re-mapped.
SameZoomKeepsFOVWitness ==
    /\ callerPc = "idle"
    /\ requestsReturned = 2
    /\ passesCompleted = 2
    /\ lastCall.op = "updateView"
    /\ lastCall.force
    /\ ~lastCall.remapped
    /\ RatLt(lastCall.pZoom, zoom)
    /\ lastCall.pZoom[1] > 0
    /\ displaySize = <<MaxDisplay, MaxDisplay>>

\* ------------------------------------------------------------ no data race

\* The worker has consumed a start request (line 704) and has not yet
\* signalled completion (line 800).
WorkerInPass ==
    /\ workerPc \in {"prepare", "render", "setFinished"}
    /\ ~stopUpdateDisplayThread

\* The caller has posted its request and has not yet seen it finished
\* (lines 663-667).
CallerWaitsForPass == callerPc \in {"notifyStart", "waitFinished", "blockFinished"}

\* What the pass reads: the sphere, the display size, the view-angle cache
\* and the view offsets (lines 709-783).
passInputs ==
    <<panoSphereData, panoSphereSize, displaySize, staticDisplayTrafos,
      viewOffsetPhi, viewOffsetTheta>>

\* The elements of displayData that the iteration <<x, y>> of the pixel loop
\* writes (lines 780-782 and 788-790), counted from 0.
DisplayElements(x, y) == {4 * (displaySize[1] * y + x) + c : c \in 0..2}

\* C18: from the worker consuming a start request until it signals completion
\* the caller is blocked inside updateDisplayData and no step changes the
\* sphere buffer, panoSphereSize, displaySize, the view-angle cache or the
\* view offsets; two different iterations of the pixel loop write different
\* elements of the display buffer.
NoDataRace ==
    /\ [](WorkerInPass => CallerWaitsForPass)
    /\ [][WorkerInPass => UNCHANGED passInputs]_vars
    /\ [](\A p, q \in DisplayPixels :
             p # q => DisplayElements(p[1], p[2]) \cap DisplayElements(q[1], q[2]) = {})

\* The second pass is in its pixel loop over a display of several pixels
\* while the caller is blocked in wait().
NoDataRaceWitness ==
    /\ workerPc = "render"
    /\ ~stopUpdateDisplayThread
    /\ passesStarted = 2
    /\ callerPc = "waitFinished"
    /\ "caller" \in updateDisplayCondVar
    /\ displaySize = <<MaxDisplay, MaxDisplay>>

\* --------------------------------------------------- the worker's lifetime

\* No public call has been made on the Projector.
NoRequestYet == lastCall.op = "none"

\* The step constructs a std::thread (line 658).
WorkerCreated == updateDisplayThread # "running" /\ updateDisplayThread' = "running"

\* C19: the worker is created lazily and only once.  No worker exists before
\* the first public call; the first call creates it at the head of
\* updateDisplayDataLoop; no other step creates a thread, every later call
\* finds the worker running and leaves it where it is; the thread object
\* changes again only when the destructor joins the worker that has left its
\* loop.
WorkerCreatedOnce ==
    /\ [](NoRequestYet => (updateDisplayThread = "none" /\ workerPc = "none"))
    /\ [](updateDisplayThread = "none" <=> workerPc = "none")
    /\ [](updateDisplayThread = "joined" => (callerPc = "destroyed" /\ workerPc = "exited"))
    /\ [][WorkerCreated =>
            (PublicCallStep /\ NoRequestYet /\ updateDisplayThread = "none"
               /\ workerPc' = "loop")]_vars
    /\ [][(PublicCallStep /\ NoRequestYet) => WorkerCreated]_vars
    /\ [][(PublicCallStep /\ ~NoRequestYet) =>
            (updateDisplayThread = "running" /\ UNCHANGED <<updateDisplayThread, workerPc>>)]_vars
    /\ [][updateDisplayThread' # updateDisplayThread =>
            (WorkerCreated \/ (callerPc = "destructorJoin" /\ updateDisplayThread = "running"
                                 /\ updateDisplayThread' = "joined"))]_vars

\* Two calls have used the worker that the first of them created, and the
\* destructor has joined it.
WorkerCreatedOnceWitness ==
    /\ callerPc = "destroyed"
    /\ updateDisplayThread = "joined"
    /\ requestsReturned = 2
    /\ passesCompleted = 2

\* ------------------------------------------------------- fovIs360Degrees

\* Horizontal FOVs are drawn from TwoPi - FovSpread to TwoPi + FovSpread.
FovSpread == 4

\* Equirectangular scenes 8 x 4 pixels with an uncropped horizontal FOV next
\* to a full turn, uncropped or cropped by one column.
NearFullTurnSceneMetaDatas ==
    { [projectionType |-> "Equirectangular",
       uncroppedSize |-> <<8, 4>>, uncroppedFOV |-> <<fovX, 20000>>,
       cropPosTL |-> <<0, 0>>, cropPosBR |-> <<right, 4>>] :
         fovX \in (TwoPi - FovSpread)..(TwoPi + FovSpread), right \in {7, 8} }

\* PanoramaWindow::run called for one of these scenes, with a picture of the
\* announced size that can or cannot be loaded.
FullTurnInit ==
    /\ pSceneMetaData \in NearFullTurnSceneMetaDatas
    /\ pic \in {PicFile(loadable, CroppedSize(pSceneMetaData)) : loadable \in BOOLEAN}
    /\ panoramaWindow \in
         [pc : {"call"}, projector : {FALSE}, window : {FALSE},
          pRequestPrev : BOOLEAN, pRequestNext : BOOLEAN, result : {"none"}]
    /\ scene = NoProjector
    /\ MembersAfterInitialisers
    /\ BuffersAfterInitialisers

FullTurnSpec == FullTurnInit /\ [][RunNext]_vars

\* An angle in angle units rounded to 4 decimal places of a radian, in units
\* of 0.0001 rad.
RoundTo4Decimals(angle) == (2 * angle * 10000 + AngleScale) \div (2 * AngleScale)

\* C20: fovIs360Degrees is true if and only if fovCentHor.x rounded to 4
\* decimal places is at least 2 pi rounded to 4 decimal places (6.2832); a
\* horizontal FOV that rounds to less, such as 6.2830, is not 360 degrees.
Is360IffRoundsToFullTurn ==
    scene # NoProjector =>
        (fovIs360Degrees <=> RoundTo4Decimals(fovCentHor[1]) >= RoundTo4Decimals(TwoPi))

\* ------------------------------------- updateDisplayDataLoop, OpenMP team

\* Number of threads of the team of #pragma omp parallel (line 693).
TeamSize == 2

Team == 1..TeamSize

\* A thread waits at a barrier: the implicit one at the end of a single or for
\* construct, or the one at the end of the parallel region.
AtBarrier(pc) == pc \in {"barrier1", "barrierFor", "barrier2", "leftAtHead", "leftAtBreak"}

\* Another thread of the team is inside the construct whose positions are
\* `inside`, or past it at its barrier: the construct is taken.
TakenByAnother(t, inside) == \E u \in Team \ {t} : teamPc[u] \in inside

teamFrame == <<callerPc, lastCall, geometryVars, viewVars>>

\* Line 693: the worker thread forks the team; every thread of it runs the
\* while loop.
TeamFork ==
    /\ workerPc = "loop"
    /\ workerPc' = "team"
    /\ teamPc' = [t \in Team |-> "head"]
    /\ UNCHANGED <<syncVars, countVars, outOfBounds, displayData>>
    /\ UNCHANGED teamFrame

\* Line 695: the thread t evaluates while (!stopUpdateDisplayThread.load()).
TeamLoop(t) ==
    /\ workerPc = "team"
    /\ teamPc[t] = "head"
    /\ teamPc' = [teamPc EXCEPT ![t] = IF stopUpdateDisplayThread THEN "leftAtHead"
                                         ELSE "single1"]
    /\ UNCHANGED <<workerPc, syncVars, countVars, outOfBounds, displayData>>
    /\ UNCHANGED teamFrame

\* Line 698, #pragma omp single: the first thread to arrive executes the
\* block, the others go to the barrier at its end.
TeamSingleWait(t) ==
    /\ workerPc = "team"
    /\ teamPc[t] = "single1"
    /\ teamPc' = [teamPc EXCEPT ![t] =
                     IF TakenByAnother(t, {"wait", "block", "prepare", "barrier1"})
                     THEN "barrier1" ELSE "wait"]
    /\ UNCHANGED <<workerPc, syncVars, countVars, outOfBounds, displayData>>
    /\ UNCHANGED teamFrame

\* Lines 702-705, by the thread that executes the single block.
TeamWait(t) ==
    /\ workerPc = "team"
    /\ teamPc[t] = "wait"
    /\ "worker" \notin updateDisplayCondVar
    /\ updateDisplayMutex = "free"
    /\ IF WorkerWaitPredicate
       THEN /\ startUpdateDisplay' = FALSE
            /\ teamPc' = [teamPc EXCEPT ![t] = "prepare"]
            /\ UNCHANGED updateDisplayMutex
       ELSE /\ updateDisplayMutex' = "worker"
            /\ teamPc' = [teamPc EXCEPT ![t] = "block"]
            /\ UNCHANGED startUpdateDisplay
    /\ UNCHANGED <<updateDisplayThread, stopUpdateDisplayThread, updateDisplayCondVar,
                   updateDisplayFinished>>
    /\ UNCHANGED <<workerPc, countVars, outOfBounds, displayData>>
    /\ UNCHANGED teamFrame

\* Inside wait(): release the mutex and block, atomically.
TeamBlock(t) ==
    /\ workerPc = "team"
    /\ teamPc[t] = "block"
    /\ updateDisplayMutex' = "free"
    /\ updateDisplayCondVar' = updateDisplayCondVar \cup {"worker"}
    /\ teamPc' = [teamPc EXCEPT ![t] = "wait"]
    /\ UNCHANGED <<updateDisplayThread, stopUpdateDisplayThread,
                   startUpdateDisplay, updateDisplayFinished>>
    /\ UNCHANGED <<workerPc, countVars, outOfBounds, displayData>>
    /\ UNCHANGED teamFrame

\* Lines 707-722, then the barrier at the end of the single construct.
TeamPrepare(t) ==
    /\ workerPc = "team"
    /\ teamPc[t] = "prepare"
    /\ IF ~stopUpdateDisplayThread
       THEN /\ passesStarted' = passesStarted + 1
            /\ outOfBounds' = (outOfBounds \/ PrepareReadsOutOfBounds)
       ELSE UNCHANGED <<passesStarted, outOfBounds>>
    /\ teamPc' = [teamPc EXCEPT ![t] = "barrier1"]
    /\ UNCHANGED <<requestsPosted, requestsReturned, passesCompleted>>
    /\ UNCHANGED <<workerPc, syncVars, displayData>>
    /\ UNCHANGED teamFrame

\* Lines 725-726: if (stopUpdateDisplayThread.load()) break.
TeamBreak(t) ==
    /\ workerPc = "team"
    /\ teamPc[t] = "check"
    /\ teamPc' = [teamPc EXCEPT ![t] = IF stopUpdateDisplayThread THEN "leftAtBreak"
                                         ELSE "for"]
    /\ UNCHANGED <<workerPc, syncVars, countVars, outOfBounds, displayData>>
    /\ UNCHANGED teamFrame

\* Lines 731-793, #pragma omp for: the thread renders its share of the
\* pixels and goes to the barrier at the end of the loop.  The pass is
\* complete when the last thread has rendered its share.
TeamRender(t) ==
    /\ workerPc = "team"
    /\ teamPc[t] = "for"
    /\ teamPc' = [teamPc EXCEPT ![t] = "barrierFor"]
    /\ IF \A u \in Team \ {t} : teamPc[u] = "barrierFor"
       THEN /\ passesCompleted' = passesCompleted + 1
            /\ \E pass \in RenderPasses :
                  /\ displayData' = pass.data
                  /\ outOfBounds' = (outOfBounds \/ pass.oob)
       ELSE UNCHANGED <<passesCompleted, displayData, outOfBounds>>
    /\ UNCHANGED <<requestsPosted, requestsReturned, passesStarted>>
    /\ UNCHANGED <<workerPc, syncVars>>
    /\ UNCHANGED teamFrame

\* Line 796, #pragma omp single.
TeamSingleFinished(t) ==
    /\ workerPc = "team"
    /\ teamPc[t] = "single2"
    /\ teamPc' = [teamPc EXCEPT ![t] =
                     IF TakenByAnother(t, {"setFinished", "notifyFinished", "barrier2"})
                     THEN "barrier2" ELSE "setFinished"]
    /\ UNCHANGED <<workerPc, syncVars, countVars, outOfBounds, displayData>>
    /\ UNCHANGED teamFrame

\* Lines 799-801: lock, updateDisplayFinished = true, unlock.
TeamSetFinished(t) ==
    /\ workerPc = "team"
    /\ teamPc[t] = "setFinished"
    /\ updateDisplayMutex = "free"
    /\ updateDisplayFinished' = TRUE
    /\ teamPc' = [teamPc EXCEPT ![t] = "notifyFinished"]
    /\ UNCHANGED <<updateDisplayThread, stopUpdateDisplayThread, updateDisplayMutex,
                   updateDisplayCondVar, startUpdateDisplay>>
    /\ UNCHANGED <<workerPc, countVars, outOfBounds, displayData>>
    /\ UNCHANGED teamFrame

\* Line 802: notify_one(), then the barrier at the end of the single construct.
TeamNotifyFinished(t) ==
    /\ workerPc = "team"
    /\ teamPc[t] = "notifyFinished"
    /\ NotifyOne
    /\ teamPc' = [teamPc EXCEPT ![t] = "barrier2"]
    /\ UNCHANGED <<updateDisplayThread, stopUpdateDisplayThread, updateDisplayMutex,
                   startUpdateDisplay, updateDisplayFinished>>
    /\ UNCHANGED <<workerPc, countVars, outOfBounds, displayData>>
    /\ UNCHANGED teamFrame

\* Where a thread goes on when the barrier it waits at is released.
AfterBarrier(pc) ==
    IF pc = "barrier1" THEN "check"
    ELSE IF pc = "barrierFor" THEN "single2"
    ELSE IF pc = "barrier2" THEN "head"
    ELSE "gone"

\* The team's barrier is released when every thread waits at a barrier.  The
\* threads need not wait at the same one: a thread that has left the loop
\* waits at the end of the parallel region while the others wait inside the
\* loop; the behaviour is undefined then, and the barrier is released for all
\* of them or for none.
TeamBarrier ==
    /\ workerPc = "team"
    /\ \A t \in Team : AtBarrier(teamPc[t])
    /\ teamPc' = [t \in Team |-> AfterBarrier(teamPc[t])]
    /\ UNCHANGED <<workerPc, syncVars, countVars, outOfBounds, displayData>>
    /\ UNCHANGED teamFrame

\* End of the parallel region and of updateDisplayDataLoop: all threads of
\* the team have passed the last barrier.
TeamJoin ==
    /\ workerPc = "team"
    /\ \A t \in Team : teamPc[t] = "gone"
    /\ workerPc' = "exited"
    /\ UNCHANGED <<teamPc, syncVars, countVars, outOfBounds, displayData>>
    /\ UNCHANGED teamFrame

TeamWorker ==
    \/ TeamFork
    \/ \E t \in Team :
          \/ TeamLoop(t)
          \/ TeamSingleWait(t)
          \/ TeamWait(t)
          \/ TeamBlock(t)
          \/ TeamPrepare(t)
          \/ TeamBreak(t)
          \/ TeamRender(t)
          \/ TeamSingleFinished(t)
          \/ TeamSetFinished(t)
          \/ TeamNotifyFinished(t)
    \/ TeamBarrier
    \/ TeamJoin

TeamNext == TeardownCaller \/ Destructor \/ TeamWorker \/ SpuriousWakeup

\* The Projector built with USE_OMP (line 32): one request of each kind, the
\* worker being a team of TeamSize threads.
TeamSpec == Init /\ [][TeamNext]_vars

\* The thread has left the while loop on the stop flag at its head.
LeftAtHead(t) == teamPc[t] = "leftAtHead"

\* The thread is inside an iteration of the while loop: in or between its
\* single and for constructs.
InIteration(t) ==
    teamPc[t] \in {"single1", "wait", "block", "prepare", "barrier1", "check", "for",
                   "barrierFor", "single2", "setFinished", "notifyFinished", "barrier2"}

\* The thread is inside an iteration, past the break of line 726.
PastBreak(t) ==
    teamPc[t] \in {"for", "barrierFor", "single2", "setFinished", "notifyFinished",
                   "barrier2"}

\* C21: all threads of the team take the same loop-exit decision in every
\* iteration: no thread has left the while loop on the stop flag, at its head
\* or at the break, while another thread is inside that iteration's single or
\* for constructs.
TeamLeavesTogether ==
    workerPc = "team" =>
        \A t, u \in Team :
            /\ ~(LeftAtHead(t) /\ InIteration(u))
            /\ ~(teamPc[t] = "leftAtBreak" /\ PastBreak(u))

\* ------------------------------------------------- reads of the source buffer

\* Whole turns by which the far view offsets lie outside [0, 2 pi).
FarTurns == 3

\* Requested view offsets <<phi, theta>> far below 0 and far above 2 pi.
FarOffsetInputs ==
    {<<-(FarTurns * TwoPi + 5000), 0>>, <<FarTurns * TwoPi + 5000, 0>>}

\* A square display and views asked for far outside the scene, the contents
\* of the buffers being followed.
FarOffsetCaller ==
    \/ updateDisplaySize(<<MaxDisplay, MaxDisplay>>, FALSE)
    \/ \E z \in PixelZoomInputs, o \in FarOffsetInputs :
          updateView(z, o[1], o[2], FALSE)
    \/ centerHorizon(FALSE)
    \/ CallerPostStart
    \/ CallerNotifyStart
    \/ CallerWaitFinished
    \/ CallerBlockFinished

FarOffsetNext == FarOffsetCaller \/ Worker

FarOffsetSpec == PixelInit /\ [][FarOffsetNext]_vars

\* The worker is about to run the pixel loop of lines 733-793.
PassAboutToRender == workerPc = "render" /\ ~stopUpdateDisplayThread

\* C22: every source element that interpolatePixel reads lies inside the
\* source buffer: none of the calls made by mapPicToPanoSphere during a
\* public call that read its caches in bounds, and none of the calls made by
\* a render pass, reads outside it, whatever phi and theta were asked for.
SourceReadsInBounds ==
    /\ (callerPc = "postStart" /\ ~OversamplingReadsOutOfBounds(staticDisplayTrafos))
          => ~outOfBounds
    /\ PassAboutToRender =>
          \A p \in DisplayPixels : ~RenderPixel(p[1], p[2], AnyGarbage).oob

\* ------------------------------------------------- scenes with far more sky

\* Scenes whose crop rectangle reaches much further above the horizon than
\* below it: central cylindrical, 8 x 8 pixels, rows 0..4 of 8; and
\* equirectangular, full turn, 8 x 8 pixels, rows 0..4 of 8.
SkySceneMetaDatas ==
    { [projectionType |-> "CentralCylindrical",
       uncroppedSize |-> <<8, 8>>, uncroppedFOV |-> <<30000, 20000>>,
       cropPosTL |-> <<1, 0>>, cropPosBR |-> <<7, 5>>],
      [projectionType |-> "Equirectangular",
       uncroppedSize |-> <<8, 8>>, uncroppedFOV |-> <<62832, 24000>>,
       cropPosTL |-> <<0, 0>>, cropPosBR |-> <<8, 5>>] }

\* A Projector constructed for one of these scenes, its buffers followed.
SkyInit ==
    /\ pSceneMetaData \in SkySceneMetaDatas
    /\ pic = PicFile(TRUE, CroppedSize(pSceneMetaData))
    /\ panoramaWindow = RunAfterConstruction
    /\ scene = ConstMembers(pSceneMetaData)
    /\ MembersAfterInitialisers
    /\ BuffersAfterInitialisers

SkySpec == SkyInit /\ [][PixelNext]_vars

\* C23: interpolatePixel never divides by a total weight of 0: in every call
\* made by mapPicToPanoSphere (the sphere pixels of the re-map a public call
\* has just done) and by the render pass (the display pixels of the pass
\* about to run) at least one source pixel contributes to totalWeight.  A
\* re-map whose oversampling estimate was read outside the caches is left
\* aside.
TotalWeightNeverZero ==
    /\ (/\ callerPc = "postStart"
        /\ lastCall.remapped
        /\ ~OversamplingReadsOutOfBounds(staticDisplayTrafos)) => ~lastCall.zeroWeight
    /\ PassAboutToRender =>
          \A p \in DisplayPixels : ~RenderPixel(p[1], p[2], AnyGarbage).nan

\* ---------------------------------------------------- the sphere of a pass

\* The pass about to run has display pixels to interpolate.
PassReadsSphere == PassAboutToRender /\ displaySize[1] > 0 /\ displaySize[2] > 0

\* mapPicToPanoSphere has run: the sphere has pixels and its buffer holds
\* four bytes for each of them (line 880).
SphereMapped ==
    /\ panoSphereSize[1] > 0
    /\ panoSphereSize[2] > 0
    /\ Len(panoSphereData) = 4 * panoSphereSize[1] * panoSphereSize[2]

\* The step is an updateDisplaySize with positive width and height made
\* while the sphere is still the 0 x 0 sphere of the constructor.
SizedCallOnUnmappedSphere ==
    /\ PublicCallStep
    /\ lastCall'.op = "updateDisplaySize"
    /\ displaySize'[1] > 0
    /\ displaySize'[2] > 0
    /\ panoSphereSize = <<0, 0>>

WideSceneMetaDatas ==
    { [projectionType |-> "Equirectangular",
       uncroppedSize |-> <<12, 4>>, uncroppedFOV |-> <<62832, 20000>>,
       cropPosTL |-> <<0, 0>>, cropPosBR |-> <<12, 4>>] }

\* A Projector constructed for this scene; the contents of the buffers are
\* not followed.
WideInit ==
    /\ pSceneMetaData \in WideSceneMetaDatas
    /\ pic = PicFile(TRUE, CroppedSize(pSceneMetaData))
    /\ panoramaWindow = RunAfterConstruction
    /\ scene = ConstMembers(pSceneMetaData)
    /\ MembersAfterInitialisers
    /\ panoSphereData = NotFollowed
    /\ displayData = NotFollowed

WideSpec == WideInit /\ [][HysteresisNext]_vars

\* The step is an unforced updateDisplaySize that repeats the size of the
\* unforced updateDisplaySize made just before it (the zoom is unchanged, no
\* updateView lies between the two), both with a display that has pixels.
RepeatedSizeCall ==
    /\ PublicCallStep
    /\ lastCall.op = "updateDisplaySize"
    /\ ~lastCall.force
    /\ lastCall'.op = "updateDisplaySize"
    /\ ~lastCall'.force
    /\ displaySize' = displaySize
    /\ displaySize[1] > 0
    /\ displaySize[2] > 0

\* The oversampling of the perspective and sphere of the current state.
OversamplingNow ==
    calcLowestDisplayTrafoOversampling(staticDisplayTrafos, viewOffsetPhi,
                                       viewOffsetTheta, panoSphereSize)

\* An unforced updateDisplaySize on a display with pixels has just re-mapped
\* the sphere.
JustRemapped ==
    /\ callerPc = "postStart"
    /\ lastCall.op = "updateDisplaySize"
    /\ ~lastCall.force
    /\ lastCall.remapped
    /\ displaySize[1] > 0
    /\ displaySize[2] > 0

\* C25: the hysteresis is stable: immediately after a re-map either the
\* oversampling lies within [1.0, 2.0] or a further re-map is suppressed by
\* maxUsableFocalLength, and repeating updateDisplaySize with the same size
\* and without forced refresh (zoom unchanged) performs no further re-map and
\* leaves panoSphereSize and maxUsableFocalLength as the first call left them.
HysteresisStable ==
    /\ [](JustRemapped =>
            \A over \in OversamplingNow :
               \/ over # NaN /\ over >= panoSphereRemapHystMinOvers
                             /\ over <= panoSphereRemapHystMaxOvers
               \/ /\ FLt(over, panoSphereRemapHystMinOvers)
                  /\ panoSphereRemapHystMaxF # 0
                  /\ f >= panoSphereRemapHystMaxF)
    /\ [][RepeatedSizeCall =>
            /\ ~lastCall'.remapped
            /\ panoSphereSize' = panoSphereSize
            /\ panoSphereRemapHystMaxF' = panoSphereRemapHystMaxF]_vars

\* ------------------------------------------------- the size of the sphere

\* The sphere size mapPicToPanoSphere starts with (lines 824-827): the width
\* of the picture, the height that keeps the aspect ratio of the angles.
FullSphereSize ==
    <<picSize[1], (picSize[1] * fovCentHor[2]) \div fovCentHor[1] + 1>>

\* The oversampling mapPicToPanoSphere estimates in line 868: that of the new
\* cache and the view offsets from before the call, for the full-size sphere.
OversamplingAtFullSize ==
    calcLowestDisplayTrafoOversampling(staticDisplayTrafos', viewOffsetPhi,
                                       viewOffsetTheta, FullSphereSize)

\* The step is a public call that re-mapped the sphere, its oversampling
\* being read inside the caches.
RemapStep == RanUpdateDisplayFOVInBounds /\ lastCall'.remapped

\* The sphere dimension n is m / d scaled by targetOversampling / over, up to
\* the rounding to a whole number of pixels.
ScaledByTarget(n, m, d, over) ==
    /\ n >= (m * panoSphereRemapHystTargOvers) \div (d * over) - 1
    /\ n <= (m * panoSphereRemapHystTargOvers) \div (d * over) + 1

\* C30: after a sphere re-map panoSphereSize.x <= picSize.x, with
\* panoSphereSize.x = picSize.x exactly when the oversampling estimated at
\* full picture width is <= targetOversampling = 1.5, and both dimensions
\* scaled by the same factor targetOversampling / over (< 1) otherwise.
SphereNoLargerThanPicture ==
    [][RemapStep =>
         \A over \in OversamplingAtFullSize :
            /\ panoSphereSize'[1] <= picSize[1]
            /\ (panoSphereSize'[1] = picSize[1])
                  <=> ~FGt(over, panoSphereRemapHystTargOvers)
            /\ FGt(over, panoSphereRemapHystTargOvers) =>
                  /\ ScaledByTarget(panoSphereSize'[1], picSize[1], 1, over)
                  /\ ScaledByTarget(panoSphereSize'[2], picSize[1] * fovCentHor[2],
                                    fovCentHor[1], over)]_vars

\* ------------------------------------------ PanoramaWindow::run, event loop

\* Number of events the window system delivers during one run: while
\* resizing is looked at, and while dragging is.
MaxEvents == 4
MaxDragEvents == 5

\* Size of the window createWindow opens, and the sizes it is resized to.
InitialWindowSize == <<4, 3>>
WindowSizes == {<<4, 3>>, <<5, 3>>}

\* Pointer positions reported by MouseMoved events: on the left edge of the
\* window and inside it.
MousePositions == {<<0, 1>>, <<1, 1>>, <<2, 1>>}

\* An sf::Event: its type, the size of a Resized, the position of a
\* MouseMoved.  Button events are those of the left button, the key event is
\* CTRL+'S'.
Event(type, size, position) == [type |-> type, size |-> size, position |-> position]
ResizeEvents ==
    {Event("Closed", <<0, 0>>, <<0, 0>>), Event("KeyPressed", <<0, 0>>, <<0, 0>>),
     Event("MouseButtonPressed", <<0, 0>>, <<0, 0>>)}
      \cup {Event("Resized", s, <<0, 0>>) : s \in WindowSizes}
      \cup {Event("MouseMoved", <<0, 0>>, p) : p \in {<<0, 1>>}}
DragEvents ==
    {Event("Closed", <<0, 0>>, <<0, 0>>),
     Event("MouseButtonPressed", <<0, 0>>, <<0, 0>>),
     Event("MouseButtonReleased", <<0, 0>>, <<0, 0>>)}
      \cup {Event("MouseMoved", <<0, 0>>, p) : p \in MousePositions}

\* The local variables of run (lines 151-160, 184) and what run sees of the
\* window: its event queue, its size, the pointer.  The calls made on the
\* Projector are counted (displaySizeCalls, viewCalls) with the size handed
\* over last; resizedInDrain counts the Resized events taken from the queue
\* that no updateDisplaySize has answered yet, coalesced those answered by
\* the last one; wrapped tells that the pointer was set to the opposite edge
\* in the current drag and the MouseMoved reporting it has not been seen.
LoopLocals ==
    [windowResizing |-> FALSE, mouseDragging |-> FALSE, dragWaitForWrap |-> FALSE,
     dragCurrentMousePos |-> <<0, 0>>, dragLastMousePos |-> <<0, 0>>,
     errorOccurred |-> FALSE, currentWindowSize |-> <<0, 0>>,
     windowSize |-> <<0, 0>>, mouse |-> <<1, 1>>, queue |-> <<>>, posted |-> 0,
     displaySizeCalls |-> 0, lastDisplaySize |-> <<0, 0>>, viewCalls |-> 0,
     textureFailed |-> FALSE, resizedInDrain |-> 0, coalesced |-> 0,
     wrapped |-> FALSE]

\* State at the call of PanoramaWindow::run for a scene and a picture that
\* fits it or does not.
WindowInit ==
    /\ pSceneMetaData \in SceneMetaDatas
    /\ pic \in {PicFile(loadable, CroppedSize(pSceneMetaData)) : loadable \in BOOLEAN}
    /\ panoramaWindow \in
         {[pc |-> "call", projector |-> FALSE, window |-> FALSE,
           pRequestPrev |-> prev, pRequestNext |-> next, result |-> "none"] @@ LoopLocals :
            prev \in BOOLEAN, next \in BOOLEAN}
    /\ scene = NoProjector
    /\ MembersAfterInitialisers
    /\ BuffersAfterInitialisers

\* What the steps of run leave alone: the Projector's own state is not
\* followed while run is.
RunFrame ==
    /\ UNCHANGED <<pic, pSceneMetaData>>
    /\ UNCHANGED projectorVars
    /\ UNCHANGED teamPc

\* PanoramaWindow::updateDisplaySize (lines 539-552) on the window state w:
\* Projector::updateDisplaySize is called with the window's size.
WindowUpdateDisplaySize(w) ==
    [w EXCEPT !.displaySizeCalls = @ + 1, !.lastDisplaySize = w.windowSize,
              !.coalesced = w.resizedInDrain, !.resizedInDrain = 0]

\* Line 126 and lines 128-141: the window is created, then the first
\* updateDisplaySize; if the texture cannot be resized the Projector is
\* deleted and run returns false.
RunUpdateDisplaySize ==
    /\ panoramaWindow.pc = "windowCreated"
    /\ \E resized \in BOOLEAN :
         LET w == WindowUpdateDisplaySize(
                      [panoramaWindow EXCEPT !.windowSize = InitialWindowSize,
                                             !.currentWindowSize = InitialWindowSize])
         IN  IF resized
             THEN /\ panoramaWindow' = [w EXCEPT !.pc = "updateView"]
                  /\ UNCHANGED scene
             ELSE /\ panoramaWindow' = [w EXCEPT !.pc = "returned", !.result = "false",
                                                 !.projector = FALSE,
                                                 !.textureFailed = TRUE]
                  /\ scene' = NoProjector
    /\ RunFrame

\* Lines 143-186: the first updateView, the first rendering, the locals of
\* the event loop.
RunUpdateView ==
    /\ panoramaWindow.pc = "updateView"
    /\ panoramaWindow' = [panoramaWindow EXCEPT !.pc = "isOpen", !.viewCalls = @ + 1]
    /\ UNCHANGED scene
    /\ RunFrame

\* Line 188: while (window.isOpen()).
RunIsOpen ==
    /\ panoramaWindow.pc = "isOpen"
    /\ panoramaWindow' = [panoramaWindow EXCEPT
                             !.pc = IF panoramaWindow.window THEN "events" ELSE "reset"]
    /\ UNCHANGED scene
    /\ RunFrame

\* enableMouseDragging (lines 163-178).
enableMouseDragging(w) ==
    [w EXCEPT !.mouseDragging = TRUE, !.dragCurrentMousePos = w.mouse,
              !.dragLastMousePos = w.mouse]

\* A Resized handler that resizes the scene at once.
OnResizedResizeNow(w, event) ==
    WindowUpdateDisplaySize([w EXCEPT !.windowSize = event.size,
                                      !.resizedInDrain = @ + 1])

\* Lines 205-210: a Resized event only sets the flag.
OnResized(w, event) ==
    [w EXCEPT !.windowResizing = TRUE, !.windowSize = event.size,
              !.resizedInDrain = @ + 1]

\* Lines 231-250: a MouseMoved event while dragging is dropped while
\* dragWaitForWrap is set, which it ends if it carries the position the
\* pointer was set to; otherwise it gives the new pointer position.
OnMouseMoved(w, event) ==
    IF ~w.mouseDragging THEN w
    ELSE IF w.dragWaitForWrap
         THEN IF w.dragCurrentMousePos = event.position
              THEN [w EXCEPT !.dragWaitForWrap = FALSE, !.wrapped = FALSE]
              ELSE w
         ELSE [w EXCEPT !.dragCurrentMousePos = event.position]

\* Lines 201-394: what the body of the inner loop does with one event.
OnEvent(w, event) ==
    CASE event.type = "Closed" -> [w EXCEPT !.window = FALSE]
      [] event.type = "Resized" -> OnResized(w, event)
      [] event.type = "MouseButtonPressed" ->
            [enableMouseDragging(w) EXCEPT !.wrapped = w.mouseDragging /\ w.wrapped]
      [] event.type = "MouseButtonReleased" -> [w EXCEPT !.mouseDragging = FALSE]
      [] event.type = "MouseMoved" -> OnMouseMoved(w, event)
      [] event.type = "KeyPressed" -> [w EXCEPT !.pRequestNext = TRUE, !.window = FALSE]

\* Lines 198-394: one turn of the inner loop.  pollEvent (while dragging or
\* resizing) returns no event if the queue is empty, waitEvent blocks until
\* there is one; neither returns an event of a closed window.
RunEvent ==
    /\ panoramaWindow.pc = "events"
    /\ IF ~panoramaWindow.window
       THEN panoramaWindow' = [panoramaWindow EXCEPT !.pc = "idle"]
       ELSE IF panoramaWindow.queue # <<>>
       THEN panoramaWindow' =
               OnEvent([panoramaWindow EXCEPT !.queue = Tail(panoramaWindow.queue)],
                       Head(panoramaWindow.queue))
       ELSE /\ panoramaWindow.mouseDragging \/ panoramaWindow.windowResizing
            /\ panoramaWindow' = [panoramaWindow EXCEPT !.pc = "idle"]
    /\ UNCHANGED scene
    /\ RunFrame

\* Line 397: there is something to do below the inner loop.
SomethingToDo(w) ==
    \/ w.windowResizing
    \/ w.mouseDragging /\ w.dragCurrentMousePos # w.dragLastMousePos

\* Lines 396-401: sleep and continue if there is nothing to do.
RunIdle ==
    /\ panoramaWindow.pc = "idle"
    /\ panoramaWindow' = [panoramaWindow EXCEPT
                             !.pc = IF SomethingToDo(panoramaWindow)
                                    THEN "resize" ELSE "isOpen"]
    /\ UNCHANGED scene
    /\ RunFrame

\* Lines 403-423: the scene is resized once for the Resized events collected;
\* if the texture cannot be resized the window is closed and the loop left.
RunResize ==
    /\ panoramaWindow.pc = "resize"
    /\ IF panoramaWindow.windowResizing
       THEN \E resized \in BOOLEAN :
              LET w == WindowUpdateDisplaySize(
                           [panoramaWindow EXCEPT
                               !.windowResizing = FALSE,
                               !.currentWindowSize = panoramaWindow.windowSize])
              IN  panoramaWindow' =
                     IF resized THEN [w EXCEPT !.pc = "dragView"]
                     ELSE [w EXCEPT !.pc = "isOpen", !.errorOccurred = TRUE,
                                    !.window = FALSE, !.textureFailed = TRUE]
       ELSE panoramaWindow' = [panoramaWindow EXCEPT !.pc = "dragView"]
    /\ UNCHANGED scene
    /\ RunFrame

\* Lines 425-442: the view follows the pointer.
RunDragView ==
    /\ panoramaWindow.pc = "dragView"
    /\ panoramaWindow' =
          IF SomethingToDo([panoramaWindow EXCEPT !.windowResizing = FALSE])
          THEN [panoramaWindow EXCEPT !.pc = "dragWrap", !.viewCalls = @ + 1]
          ELSE [panoramaWindow EXCEPT !.pc = "isOpen"]
    /\ UNCHANGED scene
    /\ RunFrame

\* The pointer has reached an edge of the window (lines 446-447).
AtWindowEdge(pos, size) ==
    \/ pos[1] <= 0
    \/ pos[1] >= size[1] - 1
    \/ pos[2] <= 0
    \/ pos[2] >= size[2] - 1

\* mouseOffs of lines 449-459.
mouseOffs(pos, size) ==
    <<IF pos[1] <= 0 THEN size[1] - 2
      ELSE IF pos[1] >= size[1] - 1 THEN 2 - size[1] ELSE 0,
      IF pos[2] <= 0 THEN size[2] - 2
      ELSE IF pos[2] >= size[2] - 1 THEN 2 - size[2] ELSE 0>>

\* Lines 444-471: at an edge the pointer is set to the opposite edge, which
\* the window system reports by a MouseMoved event, the dragging origin is
\* reset and dragWaitForWrap set.
RunDragWrap ==
    /\ panoramaWindow.pc = "dragWrap"
    /\ LET w == panoramaWindow
           target == <<w.dragCurrentMousePos[1]
                          + mouseOffs(w.dragCurrentMousePos, w.currentWindowSize)[1],
                       w.dragCurrentMousePos[2]
                          + mouseOffs(w.dragCurrentMousePos, w.currentWindowSize)[2]>>
       IN  panoramaWindow' =
              IF AtWindowEdge(w.dragCurrentMousePos, w.currentWindowSize)
              THEN [enableMouseDragging(
                        [w EXCEPT !.mouse = target,
                                  !.queue = Append(w.queue,
                                                   Event("MouseMoved", <<0, 0>>, target))])
                       EXCEPT !.dragWaitForWrap = TRUE, !.wrapped = TRUE, !.pc = "isOpen"]
              ELSE [w EXCEPT !.dragLastMousePos = w.dragCurrentMousePos, !.pc = "isOpen"]
    /\ UNCHANGED scene
    /\ RunFrame

\* A run that reports success whatever happened.
RunResultAlwaysTrue(errorOccurred) == "true"

\* The value run returns in line 477.
RunResult(errorOccurred) == IF errorOccurred THEN "false" ELSE "true"

\* Lines 474-477: the Projector is deleted and run returns.
RunReset ==
    /\ panoramaWindow.pc = "reset"
    /\ panoramaWindow' = [panoramaWindow EXCEPT
                             !.pc = "returned", !.projector = FALSE,
                             !.result = RunResult(panoramaWindow.errorOccurred)]
    /\ scene' = NoProjector
    /\ RunFrame

\* The window system puts an event into the queue of the open window; a
\* MouseMoved tells where the pointer is.
PostEvent(events, max) ==
    /\ panoramaWindow.pc \in {"events", "idle", "resize", "dragView", "dragWrap", "isOpen"}
    /\ panoramaWindow.window
    /\ panoramaWindow.posted < max
    /\ \E event \in events :
         panoramaWindow' =
            [panoramaWindow EXCEPT
                !.queue = Append(@, event), !.posted = @ + 1,
                !.mouse = IF event.type = "MouseMoved" THEN event.position ELSE @]
    /\ UNCHANGED scene
    /\ RunFrame

RunLoop ==
    \/ RunUpdateDisplaySize
    \/ RunUpdateView
    \/ RunIsOpen
    \/ RunEvent
    \/ RunIdle
    \/ RunResize
    \/ RunDragView
    \/ RunDragWrap
    \/ RunReset

WindowNext == RunNext \/ RunLoop \/ PostEvent(ResizeEvents, MaxEvents)

\* PanoramaWindow::run from its call to its return, with windows that are
\* resized and closed.
WindowSpec == WindowInit /\ [][WindowNext]_vars

DragNext == RunNext \/ RunLoop \/ PostEvent(DragEvents, MaxDragEvents)

\* PanoramaWindow::run from its call to its return, with the pointer dragged
\* across the window.
DragSpec == WindowInit /\ [][DragNext]_vars

\* ------------------------------------------------ resizing, return value

\* The step calls Projector::updateDisplaySize.
CallsUpdateDisplaySize ==
    panoramaWindow'.displaySizeCalls # panoramaWindow.displaySizeCalls

\* The step is the one of lines 403-423, taken with Resized events collected.
LeavesResizeWithEvents ==
    /\ panoramaWindow.pc = "resize"
    /\ panoramaWindow'.pc # "resize"
    /\ panoramaWindow.resizedInDrain >= 1

\* run is inside its outer loop.
InEventLoop ==
    panoramaWindow.pc \in {"isOpen", "events", "idle", "resize", "dragView", "dragWrap"}

\* C26: resize events are coalesced in PanoramaWindow::run: Resized events
\* taken from the queue only set windowResizing; once the inner loop is left,
\* all of them together cause exactly one Projector::updateDisplaySize call,
\* with the size the window has at that moment, and windowResizing is false
\* afterwards.
ResizeEventsCoalesced ==
    /\ [](InEventLoop =>
            (panoramaWindow.windowResizing <=> panoramaWindow.resizedInDrain >= 1))
    /\ [][CallsUpdateDisplaySize =>
            /\ panoramaWindow'.displaySizeCalls = panoramaWindow.displaySizeCalls + 1
            /\ panoramaWindow.pc = "windowCreated" \/ LeavesResizeWithEvents
            /\ panoramaWindow.pc = "resize" =>
                  panoramaWindow'.lastDisplaySize = panoramaWindow.windowSize
            /\ ~panoramaWindow'.windowResizing
            /\ panoramaWindow'.resizedInDrain = 0]_vars
    /\ [][LeavesResizeWithEvents => CallsUpdateDisplaySize]_vars

\* One call has answered two Resized events; the window has the size of the
\* second one.
ResizeEventsCoalescedWitness ==
    /\ panoramaWindow.pc = "dragView"
    /\ panoramaWindow.coalesced = 2
    /\ panoramaWindow.displaySizeCalls = 2
    /\ panoramaWindow.lastDisplaySize = <<5, 3>>
    /\ panoramaWindow.currentWindowSize = <<5, 3>>
    /\ ~panoramaWindow.windowResizing

\* C27: run returns false exactly when the Projector could not be constructed
\* or a texture resize failed (the first one or one after a window resize),
\* and true otherwise; on every return path the Projector is destroyed, the
\* pointer being null when run returns.
ReturnsFalseIffFailed ==
    panoramaWindow.pc = "returned" =>
        /\ panoramaWindow.result \in {"true", "false"}
        /\ panoramaWindow.result = "false"
              <=> (ProjectorThrows(pSceneMetaData) \/ panoramaWindow.textureFailed)
        /\ ~panoramaWindow.projector
        /\ scene = NoProjector

\* run has returned false because the texture could not be resized after a
\* window resize.
ReturnsFalseIffFailedWitness ==
    /\ panoramaWindow.pc = "returned"
    /\ panoramaWindow.result = "false"
    /\ panoramaWindow.textureFailed
    /\ panoramaWindow.displaySizeCalls = 2
    /\ panoramaWindow.errorOccurred

\* --------------------------------------------------------------- dragging

\* The steps of run are taken as long as run can take one (waitEvent blocks
\* while the queue is empty).
DragFairSpec == WindowInit /\ [][DragNext]_vars /\ WF_vars(RunLoop)

\* The step takes a MouseMoved event from the queue while a drag is on.
TakesMouseMovedInDrag ==
    /\ panoramaWindow.pc = "events"
    /\ panoramaWindow.window
    /\ panoramaWindow.mouseDragging
    /\ panoramaWindow.queue # <<>>
    /\ Head(panoramaWindow.queue).type = "MouseMoved"
    /\ panoramaWindow'.queue = Tail(panoramaWindow.queue)

\* The step is the one of lines 425-442, taken in a drag whose pointer has
\* moved.
LeavesDragViewMoved ==
    /\ panoramaWindow.pc = "dragView"
    /\ panoramaWindow'.pc # "dragView"
    /\ panoramaWindow.mouseDragging
    /\ panoramaWindow.dragCurrentMousePos # panoramaWindow.dragLastMousePos

\* The loop drops the MouseMoved events of the drag going on.
SkippingMoves ==
    /\ InEventLoop
    /\ panoramaWindow.window
    /\ panoramaWindow.mouseDragging
    /\ panoramaWindow.dragWaitForWrap

\* C29: a drag started by a left-button press always tracks the following
\* mouse-move events: unless the pointer was wrapped in this drag and the
\* event reporting the wrap is still to come, dragWaitForWrap is not set
\* (it does not carry over from the previous drag) and each MouseMoved event
\* updates dragCurrentMousePos; a moved pointer leads to a view update; and
\* after a pointer wrap the skipping eventually ends.
DragTracksMouse ==
    /\ []((InEventLoop /\ panoramaWindow.mouseDragging /\ ~panoramaWindow.wrapped)
             => ~panoramaWindow.dragWaitForWrap)
    /\ [][(TakesMouseMovedInDrag /\ ~panoramaWindow.wrapped) =>
             panoramaWindow'.dragCurrentMousePos
                = Head(panoramaWindow.queue).position]_vars
    /\ [][LeavesDragViewMoved =>
             panoramaWindow'.viewCalls = panoramaWindow.viewCalls + 1]_vars
    /\ (SkippingMoves ~> ~SkippingMoves)

\* ------------------------------------------------ SceneMetaData, load files

\* SceneMetaData(): CentralCylindrical, all sizes and positions 0.
DefaultSceneMetaData ==
    [projectionType |-> "CentralCylindrical",
     uncroppedSize |-> <<0, 0>>, uncroppedFOV |-> <<0, 0>>,
     cropPosTL |-> <<0, 0>>, cropPosBR |-> <<0, 0>>]

\* The temporaries of a load function before anything was parsed.
NothingParsed ==
    [projectionType |-> "unset", uncroppedSize |-> "unset", uncroppedFOV |-> "unset",
     cropPosTL |-> "unset", cropPosBR |-> "unset"]

\* A Hugin project file: whether it can be opened, how many lines it has,
\* its first and second line, and of the third line the first three
\* characters, the number of its space separated fields and the numbers
\* behind the key characters f, w, h, v and S (left, right, top, bottom).
PTOFile(open, lines, signature, version, head, fields, proj, size, v, crop) ==
    [format |-> "PTO", open |-> open, lines |-> lines, signature |-> signature,
     version |-> version, head |-> head, fields |-> fields,
     proj |-> proj, size |-> size, v |-> v, crop |-> crop]

\* The project files of the model: well-formed ones, and files that differ
\* from a well-formed one in one respect.
GoodPTOFiles ==
    { PTOFile(TRUE, 3, "# hugin project file", "#hugin_ptoversion 2", "p f", 10,
              proj, size, v, crop) :
        proj \in {1, 2}, size \in {<<8, 4>>, <<8, 8>>}, v \in {172, 360},
        crop \in {<<0, 8, 0, 4>>, <<1, 7, 0, 3>>} }

BadPTOFiles ==
    UNION { { [g EXCEPT !.open = FALSE],
              [g EXCEPT !.lines = 0], [g EXCEPT !.lines = 1], [g EXCEPT !.lines = 2],
              [g EXCEPT !.signature = "# hugin batch file"],
              [g EXCEPT !.version = "#hugin_ptoversion 1"],
              [g EXCEPT !.head = "i w"],
              [g EXCEPT !.fields = 5],
              [g EXCEPT !.proj = 0], [g EXCEPT !.proj = 3] } :
            g \in { h \in GoodPTOFiles : h.size = <<8, 4>> /\ h.v = 360 } }

PTOFiles == GoodPTOFiles \cup BadPTOFiles

\* Lines 151-244: the try block.  thrown tells that it was left by an
\* exception, t holds the temporaries as they are then.  A read of a line
\* the file does not have fails the stream (ios_base::failure); substr(1)
\* of a field the third line does not have throws std::out_of_range.
ParsePTOFile(file) ==
    LET hfov == (file.v * Pi) \div 180
        w == file.size[1]
        h == file.size[2]
        numbers == [NothingParsed EXCEPT
                       !.uncroppedSize = file.size,
                       !.cropPosTL = <<file.crop[1], file.crop[3]>>,
                       !.cropPosBR = <<file.crop[2], file.crop[4]>>]
    IN  IF \/ ~file.open
           \/ file.lines < 1
           \/ file.signature # "# hugin project file"
           \/ file.lines < 2
           \/ file.version # "#hugin_ptoversion 2"
           \/ file.lines < 3
           \/ file.head # "p f"
           \/ file.fields < 10
        THEN [thrown |-> TRUE, numbers |-> NothingParsed, t |-> NothingParsed]
        ELSE IF file.proj = 1
        THEN [thrown |-> FALSE, numbers |-> numbers,
              t |-> [numbers EXCEPT
                        !.projectionType = "CentralCylindrical",
                        !.uncroppedFOV = <<hfov, 2 * Atan((hfov * h) \div (w * 20))>>]]
        ELSE IF file.proj = 2
        THEN [thrown |-> FALSE, numbers |-> numbers,
              t |-> [numbers EXCEPT
                        !.projectionType = "Equirectangular",
                        !.uncroppedFOV = <<hfov, (hfov * h) \div w>>]]
        ELSE [thrown |-> TRUE, numbers |-> numbers, t |-> NothingParsed]

\* A PNV file: whether it can be opened, the number of its comma separated
\* fields, and the fields (the angles in angle units).
PNVFile(open, fields, signature, proj, size, fov, cropTL, cropBR) ==
    [format |-> "PNV", open |-> open, fields |-> fields, signature |-> signature,
     proj |-> proj, size |-> size, fov |-> fov, cropTL |-> cropTL, cropBR |-> cropBR]

GoodPNVFiles ==
    { PNVFile(TRUE, 10, "PanoramaViewerAuxiliaryFile", proj, m.uncroppedSize,
              m.uncroppedFOV, m.cropPosTL, m.cropPosBR) :
        proj \in {"CYL", "EQR"}, m \in SceneMetaDatas \cup WideSceneMetaDatas }

BadPNVFiles ==
    UNION { { [g EXCEPT !.open = FALSE],
              [g EXCEPT !.fields = 0], [g EXCEPT !.fields = 4],
              [g EXCEPT !.signature = "# hugin project file"],
              [g EXCEPT !.proj = ""], [g EXCEPT !.proj = "2"] } :
            g \in { h \in GoodPNVFiles : h.size = <<8, 4>> } }

PNVFiles == GoodPNVFiles \cup BadPNVFiles

\* Lines 286-338: the try block.  A getline that finds nothing left to read
\* fails the stream (ios_base::failure).
ParsePNVFile(file) ==
    LET numbers == [NothingParsed EXCEPT
                       !.uncroppedSize = file.size,
                       !.uncroppedFOV = file.fov,
                       !.cropPosTL = file.cropTL,
                       !.cropPosBR = file.cropBR]
    IN  IF \/ ~file.open
           \/ file.fields < 1
           \/ file.signature # "PanoramaViewerAuxiliaryFile"
           \/ file.fields < 10
        THEN [thrown |-> TRUE, numbers |-> NothingParsed, t |-> NothingParsed]
        ELSE IF file.proj = "CYL"
        THEN [thrown |-> FALSE, numbers |-> numbers,
              t |-> [numbers EXCEPT !.projectionType = "CentralCylindrical"]]
        ELSE IF file.proj = "EQR"
        THEN [thrown |-> FALSE, numbers |-> numbers,
              t |-> [numbers EXCEPT !.projectionType = "Equirectangular"]]
        ELSE [thrown |-> TRUE, numbers |-> numbers, t |-> NothingParsed]

\* A load function that stores the numbers in the members as soon as they
\* are converted.
LoadStoringNumbersAtOnce(m, parsed) ==
    LET n == parsed.numbers
        stored == [field \in DOMAIN m |->
                      IF n[field] = "unset" THEN m[field] ELSE n[field]]
    IN  IF parsed.thrown
        THEN [returned |-> FALSE, metaData |-> stored]
        ELSE [returned |-> TRUE, metaData |-> parsed.t]

\* Lines 245-264 and 339-358: either catch block returns false; past them
\* the five members are assigned from the temporaries.
LoadFromParsed(m, parsed) ==
    IF parsed.thrown
    THEN [returned |-> FALSE, metaData |-> m]
    ELSE [returned |-> TRUE, metaData |-> parsed.t]

\* SceneMetaData::loadFromPTOFile on the meta data m.
loadFromPTOFile(m, file) == LoadFromParsed(m, ParsePTOFile(file))

\* SceneMetaData::loadFromPNVFile on the meta data m.
loadFromPNVFile(m, file) == LoadFromParsed(m, ParsePNVFile(file))

\* One call of a load function on the SceneMetaData object.
LoadCall(op, file, r) ==
    /\ pSceneMetaData' = r.metaData
    /\ lastCall' = [op |-> op, file |-> file, returned |-> r.returned]
    /\ UNCHANGED <<pic, panoramaWindow, scene, displayData, outOfBounds,
                   callerPc, workerPc, teamPc>>
    /\ UNCHANGED <<viewVars, syncVars, countVars>>

LoadFromPTOFile ==
    \E file \in PTOFiles :
        LoadCall("loadFromPTOFile", file, loadFromPTOFile(pSceneMetaData, file))

LoadFromPNVFile ==
    \E file \in PNVFiles :
        LoadCall("loadFromPNVFile", file, loadFromPNVFile(pSceneMetaData, file))

\* A default-constructed SceneMetaData object; no Projector, no window.
LoadInit ==
    /\ pSceneMetaData = DefaultSceneMetaData
    /\ pic = PicFile(FALSE, <<0, 0>>)
    /\ panoramaWindow = [pc |-> "none", projector |-> FALSE, window |-> FALSE,
                         pRequestPrev |-> FALSE, pRequestNext |-> FALSE,
                         result |-> "none"]
    /\ scene = NoProjector
    /\ MembersAfterInitialisers
    /\ BuffersAfterInitialisers

LoadNext == LoadFromPTOFile \/ LoadFromPNVFile

LoadSpec == LoadInit /\ [][LoadNext]_vars

\* The file of the last load is one the load functions refuse: it cannot be
\* opened, or has a wrong signature or version, or names no supported
\* projection type.
RefusedFile ==
    LET file == lastCall.file
    IN  \/ ~file.open
        \/ /\ file.format = "PTO"
           /\ \/ file.signature # "# hugin project file"
              \/ file.version # "#hugin_ptoversion 2"
              \/ file.proj \notin {1, 2}
        \/ /\ file.format = "PNV"
           /\ \/ file.signature # "PanoramaViewerAuxiliaryFile"
              \/ file.proj \notin {"CYL", "EQR"}

\* The five fields hold what the file of the last load says.
FieldsFromFile ==
    LET file == lastCall.file
        m == pSceneMetaData
    IN  /\ m.uncroppedSize = file.size
        /\ IF file.format = "PTO"
           THEN /\ m.projectionType =
                     (IF file.proj = 1 THEN "CentralCylindrical" ELSE "Equirectangular")
                /\ m.uncroppedFOV[1] = (file.v * Pi) \div 180
                /\ m.uncroppedFOV[2] > 0
                /\ m.cropPosTL = <<file.crop[1], file.crop[3]>>
                /\ m.cropPosBR = <<file.crop[2], file.crop[4]>>
           ELSE /\ m.projectionType =
                     (IF file.proj = "CYL" THEN "CentralCylindrical" ELSE "Equirectangular")
                /\ m.uncroppedFOV = file.fov
                /\ m.cropPosTL = file.cropTL
                /\ m.cropPosBR = file.cropBR

\* C28: a failed metadata load changes nothing: when loadFromPTOFile or
\* loadFromPNVFile returns false, projectionType, uncroppedSize,
\* uncroppedFOV, cropPosTL and cropPosBR keep the values they had before the
\* call; a missing file, a wrong signature or version and an unsupported
\* projection type make the load return false; and a load that returns true
\* has replaced all five fields by what the file says.
FailedLoadChangesNothing ==
    /\ [][~lastCall'.returned => pSceneMetaData' = pSceneMetaData]_vars
    /\ [][RefusedFile' => ~lastCall'.returned]_vars
    /\ [][lastCall'.returned => FieldsFromFile']_vars

\* A load of a file with an unsupported projection type has failed on an
\* object that holds the meta data of an earlier load.
FailedLoadChangesNothingWitness ==
    /\ lastCall.op \in {"loadFromPTOFile", "loadFromPNVFile"}
    /\ ~lastCall.returned
    /\ lastCall.file.open
    /\ lastCall.file.proj = (IF lastCall.file.format = "PTO" THEN 3 ELSE "2")
    /\ pSceneMetaData # DefaultSceneMetaData
    /\ pSceneMetaData.uncroppedSize # lastCall.file.size

====
